---- MODULE Spec2Model ----
(***************************************************************************)
(* Audio generation and playback pipeline of LifeCurriculumMVP.            *)
(*                                                                         *)
(* SpecPage   the lesson page: useAudioPlayer + useLessonData tracking +   *)
(*            the controls LessonPage renders, driving an <audio> sink.    *)
(***************************************************************************)
EXTENDS Integers, Sequences, FiniteSets, TLC

VARIABLES
    context,        \* lessonData.context of the mounted lesson
    audioSegments,  \* the segment list handed to useAudioPlayer
    st,             \* React state of the page (latest setState values)
    rd,             \* the values captured by the callbacks of the last render
    audioSrc,       \* audioRef.current.src
    audioState,     \* the <audio> element: empty / loading / playing / paused / ended
    playPromise,    \* the pending play() promise, named by the handler that made it
    completePc,     \* completeLesson: idle / inflight
    mounted,        \* the lesson view is mounted
    hist,           \* observation counters (requests sent, events emitted)
    question,       \* LearningQuestion: the lesson's primary_interaction, the panel's state
    turns,          \* the lesson's dialogue turns (speaker of each), in sequenceIndex order
    manifest,       \* ManifestStore: the stored manifest of the lesson, or NoManifest
    genCalls,       \* number of generate passes run so far
    lastCall,       \* what the last generate pass was given, did and reported
    race,           \* generate passes in progress, each with its working copy
    store,          \* ArtifactStore: the stored audio objects; the last delete's result
    client,         \* the loader this client session uses: "bundle" or "hook"
    rawText,        \* transcript and content of the lesson as the API returns it
    clock,          \* Date.now()
    lessonCache,    \* lessonLoaders.lessonCache, entries in insertion order
    loads,          \* the load calls of the session, by slot
    progress        \* useLessonProgress of the programs page, and the server's lesson statuses

playerVars == <<context, audioSegments, st, rd, audioSrc, audioState,
                playPromise, completePc, mounted, hist, question>>

genVars == <<turns, manifest, genCalls, lastCall, race, store>>

loadVars == <<client, rawText, clock, lessonCache, loads, progress>>

vars == <<playerVars, genVars, loadVars>>

-----------------------------------------------------------------------------
(* Bounds *)
MaxSegs == 3
MaxCount == 5
MaxTurns == 4
MaxGenCalls == 2
MaxLoads == 2
MaxLoadTurns == 2

-----------------------------------------------------------------------------
(* Segments *)

NoUrl == <<>>

\* lifeCurriculumApi.getAudioStreamUrl(lessonUuid, audioId)
StreamUrl(audioId) == <<"http-stream", audioId>>

\* the text of the conversation chunk at sequence index i
ChunkText(i) == <<"chunk", ToString(i)>>

AudioSeg(i) == [audio_id |-> <<"audio", 0, i>>, speaker |-> "Host A", voice |-> "alloy",
                duration_seconds |-> 1, chunk_index |-> i,
                stream_url |-> StreamUrl(<<"audio", 0, i>>), text |-> ChunkText(i)]

TextSeg(i, voice, text) ==
    [audio_id |-> <<"text", 0, i>>, speaker |-> "Narrator", voice |-> voice,
     duration_seconds |-> 0, chunk_index |-> i, stream_url |-> NoUrl, text |-> text]

Truthy(url) == url # NoUrl

\* audioSegments[i] with a 0-based index; NoSeg stands for undefined
NoSeg == [audio_id |-> <<>>, speaker |-> "", voice |-> "", duration_seconds |-> 0,
          chunk_index |-> -1, stream_url |-> NoUrl, text |-> <<>>]

SegAt(segs, i) == IF i >= 0 /\ i < Len(segs) THEN segs[i + 1] ELSE NoSeg

hasAudioReady == \E i \in 1..Len(audioSegments) : Truthy(audioSegments[i].stream_url)

Bump(n) == IF n < MaxCount THEN n + 1 ELSE n

-----------------------------------------------------------------------------
(* Text: a string is a sequence of one-character strings *)

IsSpace(ch) == ch \in {" ", "\n"}

IsTerminator(ch) == ch \in {".", "!", "?"}

RECURSIVE TrimStart(_)
TrimStart(str) ==
    IF str # <<>> /\ IsSpace(Head(str)) THEN TrimStart(Tail(str)) ELSE str

RECURSIVE TrimEnd(_)
TrimEnd(str) ==
    IF str # <<>> /\ IsSpace(str[Len(str)])
    THEN TrimEnd(SubSeq(str, 1, Len(str) - 1))
    ELSE str

\* String.prototype.trim
Trim(str) == TrimEnd(TrimStart(str))

\* str.split('\n\n'), scanning from position i with the piece cur open
RECURSIVE SplitParagraphsFrom(_, _, _)
SplitParagraphsFrom(str, i, cur) ==
    IF i > Len(str)
    THEN <<cur>>
    ELSE IF i + 1 <= Len(str) /\ str[i] = "\n" /\ str[i + 1] = "\n"
         THEN <<cur>> \o SplitParagraphsFrom(str, i + 2, <<>>)
         ELSE SplitParagraphsFrom(str, i + 1, Append(cur, str[i]))

SplitParagraphs(str) == SplitParagraphsFrom(str, 1, <<>>)

\* the end of the run of terminators that starts at position i
RECURSIVE SkipTerminators(_, _)
SkipTerminators(str, i) ==
    IF i <= Len(str) /\ IsTerminator(str[i]) THEN SkipTerminators(str, i + 1) ELSE i

\* str.split(/[.!?]+/)
RECURSIVE SplitSentencesFrom(_, _, _)
SplitSentencesFrom(str, i, cur) ==
    IF i > Len(str)
    THEN <<cur>>
    ELSE IF IsTerminator(str[i])
         THEN <<cur>> \o SplitSentencesFrom(str, SkipTerminators(str, i), <<>>)
         ELSE SplitSentencesFrom(str, i + 1, Append(cur, str[i]))

SplitSentences(str) == SplitSentencesFrom(str, 1, <<>>)

\* pieces.filter(p => p.trim().length > 0)
RECURSIVE NonBlank(_)
NonBlank(pieces) ==
    IF pieces = <<>>
    THEN <<>>
    ELSE IF Len(Trim(Head(pieces))) > 0
         THEN <<Head(pieces)>> \o NonBlank(Tail(pieces))
         ELSE NonBlank(Tail(pieces))

\* pieces.join('. ')
RECURSIVE JoinSentences(_)
JoinSentences(pieces) ==
    IF pieces = <<>>
    THEN <<>>
    ELSE IF Len(pieces) = 1
         THEN Head(pieces)
         ELSE Head(pieces) \o <<".", " ">> \o JoinSentences(Tail(pieces))

\* the loop `for (i = 0; i < sentences.length; i += 2)` from index i on
RECURSIVE SentencePairsFrom(_, _, _)
SentencePairsFrom(sentences, i, voice) ==
    IF i >= Len(sentences)
    THEN <<>>
    ELSE LET last == IF i + 2 <= Len(sentences) THEN i + 2 ELSE Len(sentences)
             text == Trim(JoinSentences(SubSeq(sentences, i + 1, last))) \o <<".">>
             rest == SentencePairsFrom(sentences, i + 2, voice)
         IN  IF Len(text) > 1 THEN <<TextSeg(i, voice, text)>> \o rest ELSE rest

\* createTranscriptSegments on the text data.transcript || data.content || ''
TranscriptSegments(transcriptText, voice) ==
    LET paragraphs == NonBlank(SplitParagraphs(transcriptText))
    IN  IF Len(paragraphs) = 0
        THEN SentencePairsFrom(NonBlank(SplitSentences(transcriptText)), 0, voice)
        ELSE [index \in 1..Len(paragraphs) |->
                 TextSeg(index - 1, voice, paragraphs[index])]

\* a || b on strings
OrElse(a, b) == IF a # <<>> THEN a ELSE b

\* utils/voices.getDisplayName
getDisplayName(speaker) ==
    CASE speaker = "Host A" -> "Alloy"
      [] speaker = "Host B" -> "Echo"
      [] speaker = "narrator" -> "Nova"
      [] OTHER -> speaker

\* lessonLoaders.createTranscriptSegments
createTranscriptSegments(data) ==
    TranscriptSegments(OrElse(data.transcript, data.content), getDisplayName("narrator"))

\* useLessonData.createTranscriptSegments
useLessonData_createTranscriptSegments(data) ==
    TranscriptSegments(OrElse(data.transcript, data.content), "alloy")

-----------------------------------------------------------------------------
(* The <audio> element.  A world w is the part of the state a handler can  *)
(* change: [st, audioSrc, audioState, playPromise, completePc, hist].      *)

World == [st |-> st, audioSrc |-> audioSrc, audioState |-> audioState,
          playPromise |-> playPromise, completePc |-> completePc, hist |-> hist]

Apply(w) ==
    /\ st' = w.st
    /\ audioSrc' = w.audioSrc
    /\ audioState' = w.audioState
    /\ playPromise' = w.playPromise
    /\ completePc' = w.completePc
    /\ hist' = w.hist

\* A pending play() promise is rejected (pause(), a new load, or a refusal):
\* only handlePlayPause attached a catch that touches state.
RejectPending(w) ==
    IF w.playPromise = "handlePlayPause"
    THEN [w EXCEPT !.playPromise = "none", !.st.isPlaying = FALSE]
    ELSE [w EXCEPT !.playPromise = "none"]

\* audioRef.current.pause()
SinkPause(w) ==
    LET r == RejectPending(w)
    IN  [r EXCEPT !.audioState =
            IF w.audioState \in {"loading", "playing"} THEN "paused" ELSE w.audioState]

\* audioRef.current.src = url; audioRef.current.play() with handlers of `by`
SinkLoadAndPlay(w, url, by) ==
    LET r == RejectPending(w)
    IN  [r EXCEPT !.audioSrc = url, !.audioState = "loading", !.playPromise = by]

-----------------------------------------------------------------------------
(* useLessonData: tracking *)

\* startLessonTracking, as captured by render c
startLessonTracking(w, c) ==
    IF ~c.lessonStartTime
    THEN [w EXCEPT !.st.lessonStartTime = TRUE,
                   !.hist.startLessonCalls = Bump(w.hist.startLessonCalls)]
    ELSE w

\* completeLesson up to the completion request, as captured by render c
completeLesson(w, c) ==
    IF c.isLessonCompleted
    THEN w
    ELSE LET s == IF ~c.lessonStartTime THEN startLessonTracking(w, c) ELSE w
         IN  [s EXCEPT !.st.isLessonCompleted = TRUE,
                       !.completePc = "inflight",
                       !.hist.completeRequests = Bump(s.hist.completeRequests)]

\* LessonPage.handleLessonComplete up to its first wait for the network: a
\* completeLesson that returns at once (already completed) is followed by
\* markLessonCompleted, whose refresh navigate('/programs') waits for
handleLessonComplete(w, c) ==
    IF c.isLessonCompleted
    THEN [w EXCEPT !.hist.localMarks = Bump(w.hist.localMarks), !.hist.leaving = TRUE]
    ELSE completeLesson(w, c)

\* a variant that shows the learning question in every context
onAudioComplete_alwaysQuestion(w, c) ==
    LET e == [w EXCEPT !.hist.audioCompleteCount = Bump(w.hist.audioCompleteCount)]
    IN  [e EXCEPT !.st.showLearningQuestion = TRUE]

\* LessonPage: the onAudioComplete callback handed to useAudioPlayer
onAudioComplete(w, c) ==
    LET e == [w EXCEPT !.hist.audioCompleteCount = Bump(w.hist.audioCompleteCount)]
    IN  IF context = "driving"
        THEN handleLessonComplete(e, c)
        ELSE [e EXCEPT !.st.showLearningQuestion = TRUE]

-----------------------------------------------------------------------------
(* useAudioPlayer *)

handlePlayPause(w, c) ==
    IF Len(audioSegments) = 0
    THEN w
    ELSE IF c.isPlaying
         THEN LET p == SinkPause(w) IN [p EXCEPT !.st.isPlaying = FALSE]
         ELSE LET s == startLessonTracking(w, c)
                  segment == SegAt(audioSegments, c.currentSegmentIndex)
              IN  IF Truthy(segment.stream_url)
                  THEN SinkLoadAndPlay(s, segment.stream_url, "handlePlayPause")
                  ELSE s

\* mutant: the last-segment test is off by one
handleAudioEnded_offByOne(w, c) ==
    LET e == [w EXCEPT !.st.isPlaying = FALSE]
    IN  IF c.currentSegmentIndex = Len(audioSegments)
        THEN onAudioComplete(e, c)
        ELSE LET nextIndex == c.currentSegmentIndex + 1
                 nextSegment == SegAt(audioSegments, nextIndex)
                 n == [e EXCEPT !.st.currentSegmentIndex = nextIndex]
             IN  IF Truthy(nextSegment.stream_url)
                 THEN SinkLoadAndPlay(n, nextSegment.stream_url, "handleAudioEnded")
                 ELSE n

handleAudioEnded(w, c) ==
    LET e == [w EXCEPT !.st.isPlaying = FALSE]
    IN  IF c.currentSegmentIndex = Len(audioSegments) - 1
        THEN onAudioComplete(e, c)
        ELSE LET nextIndex == c.currentSegmentIndex + 1
                 nextSegment == SegAt(audioSegments, nextIndex)
                 n == [e EXCEPT !.st.currentSegmentIndex = nextIndex]
             IN  IF Truthy(nextSegment.stream_url)
                 THEN SinkLoadAndPlay(n, nextSegment.stream_url, "handleAudioEnded")
                 ELSE n

handleSegmentClick(w, c, index) ==
    LET n == [w EXCEPT !.st.currentSegmentIndex = index]
        segment == SegAt(audioSegments, index)
    IN  IF Truthy(segment.stream_url) /\ c.isPlaying
        THEN SinkLoadAndPlay(n, segment.stream_url, "handleSegmentClick")
        ELSE n

\* a variant that also rewinds to the first segment
stopPlayback_rewinds(w) ==
    LET p == SinkPause(w) IN [p EXCEPT !.st.isPlaying = FALSE, !.st.currentSegmentIndex = 0]

stopPlayback(w) ==
    LET p == SinkPause(w) IN [p EXCEPT !.st.isPlaying = FALSE]

\* LessonPage.handleSkipToQuestion
handleSkipToQuestion(w, c) ==
    LET a == stopPlayback(w)
        b == startLessonTracking(a, c)
    IN  [b EXCEPT !.st.showLearningQuestion = TRUE]

-----------------------------------------------------------------------------
(* What the last render shows *)

currentSegment == SegAt(audioSegments, rd.currentSegmentIndex)

\* CurrentSegment returns null unless these hold
CurrentSegmentShown ==
    /\ currentSegment # NoSeg
    /\ hasAudioReady
    /\ ~rd.showLearningQuestion

PlayButtonEnabled == CurrentSegmentShown /\ Truthy(currentSegment.stream_url)

SkipButtonShown == CurrentSegmentShown /\ context # "driving"

QuickTapTypes == {"multiple_choice", "ordering_interaction", "matching_interaction"}

\* LearningQuestion.shouldShowInteraction
shouldShowInteraction ==
    IF question.interaction = "none"
    THEN FALSE
    ELSE IF context = "driving"
         THEN FALSE
         ELSE IF context = "workout"
              THEN question.interaction \in QuickTapTypes
              ELSE TRUE

LearningQuestionShown == rd.showLearningQuestion /\ ~rd.isLessonCompleted

TranscriptContainerShown == ~hasAudioReady

-----------------------------------------------------------------------------
(* GenerationOrchestrator, ManifestStore, PlaylistAssembler (backend) *)

Speakers == {"Host A", "Host B"}

DefaultVoice == "alloy"

\* voice mappings a request may carry; a speaker without a key gets the default
VoiceMappings == { [s \in Speakers |-> IF s = "Host A" THEN "alloy" ELSE "echo"],
                   [s \in {"Host A"} |-> "nova"] }

resolvedVoice(voiceMapping, speaker) ==
    IF speaker \in DOMAIN voiceMapping THEN voiceMapping[speaker] ELSE DefaultVoice

\* the dialogue of a lesson with n turns: the hosts alternate
Dialogue(n) == [i \in 1..n |-> IF i % 2 = 1 THEN "Host A" ELSE "Host B"]

NoManifest == [voiceMapping |-> <<>>, artifacts |-> <<>>, exists |-> FALSE]

NoArtifactId == <<>>

ErrorArtifact(i, speaker, voice) ==
    [artifactId |-> NoArtifactId, chunkIndex |-> i, speaker |-> speaker,
     voice |-> voice, error |-> TRUE]

NewArtifact(id, i, speaker, voice) ==
    [artifactId |-> id, chunkIndex |-> i, speaker |-> speaker,
     voice |-> voice, error |-> FALSE]

\* mutant: an artifact recorded with an error counts as existing
HasUsableArtifact_skipsErrors(existing, i, voice) ==
    /\ existing.exists
    /\ i + 1 <= Len(existing.artifacts)
    /\ existing.artifacts[i + 1].voice = voice

\* the turn at chunkIndex i already has a usable artifact
HasUsableArtifact(existing, i, voice) ==
    /\ existing.exists
    /\ i + 1 <= Len(existing.artifacts)
    /\ ~existing.artifacts[i + 1].error
    /\ existing.artifacts[i + 1].voice = voice

\* the turns a pass synthesizes (all but the skipped ones)
Attempted(existing, ts, voiceMapping, regenerate) ==
    { i \in 0..(Len(ts) - 1) :
        regenerate \/ ~HasUsableArtifact(existing, i, resolvedVoice(voiceMapping, ts[i + 1])) }

\* mutant: the first failing turn aborts the pass
RECURSIVE GenerateFrom_abortsOnFailure(_, _, _, _, _, _, _)
GenerateFrom_abortsOnFailure(i, acc, existing, ts, voiceMapping, regenerate, failing) ==
    IF i >= Len(ts)
    THEN acc
    ELSE LET speaker == ts[i + 1]
             voice == resolvedVoice(voiceMapping, speaker)
             skip == ~regenerate /\ HasUsableArtifact(existing, i, voice)
         IN  IF ~skip /\ i \in failing
             THEN Append(acc, ErrorArtifact(i, speaker, voice))
             ELSE GenerateFrom_abortsOnFailure(i + 1,
                      Append(acc, IF skip THEN existing.artifacts[i + 1]
                                  ELSE NewArtifact(<<"audio", genCalls + 1, i>>, i, speaker, voice)),
                      existing, ts, voiceMapping, regenerate, failing)

\* one pass over the turns, in sequenceIndex order, from turn i on; `failing`
\* is the set of turns whose synthesis or storage fails when attempted
RECURSIVE GenerateFrom(_, _, _, _, _, _, _)
GenerateFrom(i, acc, existing, ts, voiceMapping, regenerate, failing) ==
    IF i >= Len(ts)
    THEN acc
    ELSE LET speaker == ts[i + 1]
             voice == resolvedVoice(voiceMapping, speaker)
             artifact ==
                 IF ~regenerate /\ HasUsableArtifact(existing, i, voice)
                 THEN existing.artifacts[i + 1]
                 ELSE IF i \in failing
                      THEN ErrorArtifact(i, speaker, voice)
                      ELSE NewArtifact(<<"audio", genCalls + 1, i>>, i, speaker, voice)
         IN  GenerateFrom(i + 1, Append(acc, artifact), existing, ts,
                          voiceMapping, regenerate, failing)

\* generate(lessonId, turns, voiceMapping, regenerate): the manifest it saves
Generate(existing, ts, voiceMapping, regenerate, failing) ==
    [voiceMapping |-> voiceMapping,
     artifacts |-> GenerateFrom(0, <<>>, existing, ts, voiceMapping, regenerate, failing),
     exists |-> TRUE]

\* the summary counts of the pass
filesGenerated(existing, ts, voiceMapping, regenerate, failing) ==
    Cardinality(Attempted(existing, ts, voiceMapping, regenerate) \ failing)

filesTotal(ts) == Len(ts)

\* PlaylistAssembler: the non-error artifacts, in manifest order
\* (the stream URL is pre-baked and absolute, or a path the client completes)
RECURSIVE assemble(_, _)
assemble(artifacts, absolute) ==
    IF artifacts = <<>>
    THEN <<>>
    ELSE LET a == Head(artifacts)
             rest == assemble(Tail(artifacts), absolute)
         IN  IF a.error
             THEN rest
             ELSE <<[audio_id |-> a.artifactId, speaker |-> a.speaker, voice |-> a.voice,
                     duration_seconds |-> 1, chunk_index |-> a.chunkIndex,
                     stream_url |-> <<(IF absolute THEN "http-prebaked" ELSE "path"),
                                      a.artifactId>>]>> \o rest

NoCall == [regenerate |-> FALSE, voiceMapping |-> <<>>, failing |-> {}, before |-> NoManifest,
           attempted |-> {}, filesGenerated |-> 0, filesTotal |-> 0]

\* a generate pass: the manifest it loaded, the turn it is at, the artifacts
\* it has recorded so far
NoPass == [pc |-> "idle", callNo |-> 0, existing |-> NoManifest, voiceMapping |-> <<>>,
           regenerate |-> FALSE, i |-> 0, acc |-> <<>>]

MaxRacers == 2

NoRace == [previous |-> NoManifest, lastWriter |-> 0,
           pass |-> [p \in 1..MaxRacers |-> NoPass]]

\* the storage key of the manifest object
ManifestKey == <<"manifest", 0, 0>>

\* the storage objects of a lesson and what the last delete call returned
NoStore == [objects |-> {}, deletes |-> 0, result |-> "none", removed |-> <<>>]

\* the keys of the artifacts that have a stored object (error unset)
RECURSIVE StorageKeys(_)
StorageKeys(artifacts) ==
    IF artifacts = <<>>
    THEN <<>>
    ELSE IF Head(artifacts).error
         THEN StorageKeys(Tail(artifacts))
         ELSE <<Head(artifacts).artifactId>> \o StorageKeys(Tail(artifacts))

Range(seq) == { seq[i] : i \in 1..Len(seq) }

\* ArtifactStore.put for every artifact a pass synthesized
Put(s, artifacts) == [s EXCEPT !.objects = @ \cup Range(StorageKeys(artifacts))]

GenIdle ==
    /\ turns = <<>>
    /\ manifest = NoManifest
    /\ genCalls = 0
    /\ lastCall = NoCall
    /\ race = NoRace
    /\ store = NoStore

-----------------------------------------------------------------------------
(* lessonLoaders and useLessonData: loading a lesson and its segments *)

CACHE_DURATION == 5 * 60 * 1000

MaxCacheEntries == 20

EvictCount == 10

NoLesson == [id |-> "", transcript |-> <<>>, content |-> <<>>, conversationChunks |-> <<>>]

\* the lesson as getSingleLesson returns it
RawLesson ==
    [id |-> "lesson-uuid", transcript |-> rawText.transcript, content |-> rawText.content,
     conversation_chunks |->
        [i \in 1..Len(turns) |-> [speaker |-> turns[i], text |-> ChunkText(i - 1),
                                   content |-> <<>>]]]

mapApiLessonToLessonData(lesson) ==
    [id |-> lesson.id,
     transcript |-> OrElse(lesson.transcript, lesson.content),
     content |-> lesson.content,
     conversationChunks |-> lesson.conversation_chunks]

\* streamUrl.startsWith('http')
StartsWithHttp(url) == url # NoUrl /\ url[1] \in {"http-prebaked", "http-stream"}

\* the text a playlist item at position index (0-based) is given
chunkText(data, item, index) ==
    LET chunks == data.conversationChunks
        label == <<item.speaker, ": [Audio ", ToString(index + 1), "]">>
    IN  IF index < Len(chunks)
        THEN OrElse(chunks[index + 1].text, OrElse(chunks[index + 1].content, label))
        ELSE label

\* playlist.playlist.map((item, index) => ...)
playlistSegment(data, item, index) ==
    [audio_id |-> item.audio_id, speaker |-> item.speaker, voice |-> item.voice,
     duration_seconds |-> item.duration_seconds, chunk_index |-> item.chunk_index,
     stream_url |-> IF StartsWithHttp(item.stream_url) THEN item.stream_url
                    ELSE StreamUrl(item.audio_id),
     text |-> chunkText(data, item, index)]

\* playlist?.playlist?.length, as both loaders test it; the variant takes a
\* playlist only when no turn is missing from it
HasPlaylistItems_complete(playlist) == Len(playlist) > 0 /\ Len(playlist) = Len(turns)

HasPlaylistItems(playlist) == Len(playlist) > 0

\* a variant that maps the playlist back to front
tryLoadAudioPlaylist_reversed(playlist, data) ==
    IF ~HasPlaylistItems(playlist)
    THEN <<>>
    ELSE [i \in 1..Len(playlist) |->
             playlistSegment(data, playlist[Len(playlist) + 1 - i], i - 1)]

\* tryLoadAudioPlaylist on the playlist of a response; null is the empty list
tryLoadAudioPlaylist(playlist, data) ==
    IF ~HasPlaylistItems(playlist)
    THEN <<>>
    ELSE [i \in 1..Len(playlist) |-> playlistSegment(data, playlist[i], i - 1)]

\* the voice_mapping each loader sends with its generate request
BundleVoiceMapping ==
    [s \in {"Host A", "Host B", "narrator"} |-> getDisplayName(s)]

HookVoiceMapping ==
    [s \in {"Host A", "Host B", "narrator"} |->
        CASE s = "Host A" -> "alloy" [] s = "Host B" -> "echo" [] OTHER -> "nova"]

\* lessonCache.get(cacheKey)
CacheHas(cache, key) == \E i \in 1..Len(cache) : cache[i].key = key

CacheGet(cache, key) == cache[CHOOSE i \in 1..Len(cache) : cache[i].key = key]

\* lessonCache.set(cacheKey, entry): a known key keeps its position
CacheSet(cache, entry) ==
    IF CacheHas(cache, entry.key)
    THEN [i \in 1..Len(cache) |-> IF cache[i].key = entry.key THEN entry ELSE cache[i]]
    ELSE Append(cache, entry)

\* position of entry i after the (stable) sort by timestamp
SortRank(cache, i) ==
    Cardinality({ j \in 1..Len(cache) :
        \/ cache[j].timestamp < cache[i].timestamp
        \/ cache[j].timestamp = cache[i].timestamp /\ j < i })

RECURSIVE DropOldest(_, _, _)
DropOldest(cache, i, n) ==
    IF i > Len(cache)
    THEN <<>>
    ELSE IF SortRank(cache, i) < n
         THEN DropOldest(cache, i + 1, n)
         ELSE <<cache[i]>> \o DropOldest(cache, i + 1, n)

\* a variant that drops the entries first in the Map, unsorted
CleanUp_mapOrder(cache) ==
    IF Len(cache) > MaxCacheEntries THEN SubSeq(cache, EvictCount + 1, Len(cache)) ELSE cache

\* the clean-up at the end of loadLessonBundle
CleanUp(cache) ==
    IF Len(cache) > MaxCacheEntries THEN DropOldest(cache, 1, EvictCount) ELSE cache

\* a variant that reads the duration as seconds
IsFresh_seconds(entry, now) == (now - entry.timestamp) < 5 * 60

\* now - cached.timestamp < CACHE_DURATION
IsFresh(entry, now) == (now - entry.timestamp) < CACHE_DURATION

\* the days of a program, as useLessonProgress assumes them
NumDays == 5

Days == 1..NumDays

\* progressState[programId] when the program has no entry
NoEntry == [exists |-> FALSE, completedLessons |-> <<>>, currentLesson |-> 1]

\* the entry fetchProgramProgress sets when the fetch fails
DefaultEntry == [exists |-> TRUE, completedLessons |-> <<>>, currentLesson |-> 1]

\* a fetchProgramProgress call: idle, or waiting for getProgramById
\* ("program") or for the getSingleLesson calls ("lessons")
NoFetch == [pc |-> "idle"]

MaxFetches == 2

NoProgress == [state |-> NoEntry, loading |-> FALSE, rdLoading |-> FALSE,
               fetches |-> [f \in 1..MaxFetches |-> NoFetch],
               server |-> {}, opened |-> 0]

NoLoad == [pc |-> "idle", key |-> <<>>, now |-> 0, lesson |-> NoLesson, playlist |-> <<>>,
           segments |-> <<>>, lessonFetches |-> 0, playlistQueries |-> 0,
           generateRequests |-> 0, emptyAfterGenerate |-> FALSE, hit |-> FALSE,
           answer |-> "none", evicted |-> 0, regenerated |-> FALSE]

\* the server runs a generate pass for a client request; past MaxGenCalls
\* only passes that create no new artifact are answered
ServeGenerate(voiceMapping, failing) ==
    /\ \/ genCalls < MaxGenCalls
       \/ Attempted(manifest, turns, voiceMapping, FALSE) \subseteq failing
    /\ manifest' = Generate(manifest, turns, voiceMapping, FALSE, failing)
    /\ lastCall' = [regenerate |-> FALSE, voiceMapping |-> voiceMapping,
                    failing |-> failing, before |-> manifest,
                    attempted |-> Attempted(manifest, turns, voiceMapping, FALSE),
                    filesGenerated |->
                        filesGenerated(manifest, turns, voiceMapping, FALSE, failing),
                    filesTotal |-> filesTotal(turns)]
    /\ genCalls' = IF genCalls < MaxGenCalls THEN genCalls + 1 ELSE genCalls
    /\ store' = Put(store, manifest'.artifacts)
    /\ UNCHANGED <<turns, race>>

LoadFrame == UNCHANGED <<playerVars, client, rawText, clock, progress>>

\* what a playlist query brought: "items", "empty" or "failed"
Answer(ok, playlist) ==
    IF ~ok THEN "failed" ELSE IF Len(playlist) > 0 THEN "items" ELSE "empty"

\* loadLessonBundle returns: cache the result, clean up
BundleFinish(c, load, segments) ==
    LET stored == CacheSet(lessonCache,
                      [key |-> load.key, lesson |-> load.lesson, segments |-> segments,
                       timestamp |-> load.now])
    IN  /\ lessonCache' = CleanUp(stored)
        /\ loads' = [loads EXCEPT ![c] =
               [load EXCEPT !.pc = "done", !.segments = segments,
                            !.evicted = Len(stored) - Len(CleanUp(stored))]]

\* loadLessonBundle(programId, day) is called: cache check, else getSingleLesson
BundleStart(c) ==
    /\ client = "bundle"
    /\ loads[c].pc = "idle"
    /\ \A d \in 1..MaxLoads : d < c => loads[d].pc \in {"done", "failed"}
    /\ \E key \in {<<"program-1", 1>>} :
          IF CacheHas(lessonCache, key) /\ IsFresh(CacheGet(lessonCache, key), clock)
          THEN loads' = [loads EXCEPT ![c] =
                   [NoLoad EXCEPT !.pc = "done", !.key = key, !.now = clock, !.hit = TRUE,
                                  !.lesson = CacheGet(lessonCache, key).lesson,
                                  !.segments = CacheGet(lessonCache, key).segments]]
          ELSE loads' = [loads EXCEPT ![c] =
                   [NoLoad EXCEPT !.pc = "lesson", !.key = key, !.now = clock,
                                  !.lessonFetches = 1]]
    /\ UNCHANGED <<lessonCache, genVars>> /\ LoadFrame

\* getSingleLesson answers; on a lesson the playlist is queried
BundleLessonResponse(c) ==
    /\ client = "bundle" /\ loads[c].pc = "lesson"
    /\ \E found \in BOOLEAN :
          loads' = IF found
                   THEN [loads EXCEPT ![c].pc = "playlist1",
                                      ![c].lesson = mapApiLessonToLessonData(RawLesson),
                                      ![c].playlistQueries = 1]
                   ELSE [loads EXCEPT ![c].pc = "failed"]
    /\ UNCHANGED <<lessonCache, genVars>> /\ LoadFrame

\* the first playlist query answers (or fails)
BundlePlaylistResponse(c) ==
    /\ client = "bundle" /\ loads[c].pc = "playlist1"
    /\ \E ok \in BOOLEAN, absolute \in BOOLEAN :
          LET playlist == IF ok THEN assemble(manifest.artifacts, absolute) ELSE <<>>
              segments == tryLoadAudioPlaylist(playlist, loads[c].lesson)
              load == [loads[c] EXCEPT !.playlist = playlist,
                                       !.answer = Answer(ok, playlist)]
          IN  IF segments = <<>>
              THEN /\ loads' = [loads EXCEPT ![c] =
                                   [load EXCEPT !.pc = "generate", !.generateRequests = 1]]
                   /\ UNCHANGED lessonCache
              ELSE BundleFinish(c, load, segments)
    /\ UNCHANGED genVars /\ LoadFrame

\* ensureAudioOrTranscript: the generate request answers (or fails)
BundleGenerateResponse(c) ==
    /\ client = "bundle" /\ loads[c].pc = "generate"
    /\ \/ /\ BundleFinish(c, loads[c], createTranscriptSegments(loads[c].lesson))
          /\ UNCHANGED genVars
       \/ \E failing \in SUBSET (0..(Len(turns) - 1)), success \in BOOLEAN :
             /\ ServeGenerate(BundleVoiceMapping, failing)
             /\ IF success
                THEN /\ loads' = [loads EXCEPT ![c].pc = "playlist2",
                                               ![c].playlistQueries = 2]
                     /\ UNCHANGED lessonCache
                ELSE BundleFinish(c, loads[c], createTranscriptSegments(loads[c].lesson))
    /\ LoadFrame

\* a variant that asks for generation again when the playlist is still empty
BundlePlaylist2Response_retries(c) ==
    /\ client = "bundle" /\ loads[c].pc = "playlist2"
    /\ \E ok \in BOOLEAN, absolute \in BOOLEAN :
          LET playlist == IF ok THEN assemble(manifest.artifacts, absolute) ELSE <<>>
              segments == tryLoadAudioPlaylist(playlist, loads[c].lesson)
              load == [loads[c] EXCEPT !.playlist = playlist,
                                       !.answer = Answer(ok, playlist),
                                       !.emptyAfterGenerate = (ok /\ playlist = <<>>)]
          IN  IF Len(segments) > 0
              THEN BundleFinish(c, load, segments)
              ELSE /\ loads' = [loads EXCEPT ![c] =
                          [load EXCEPT !.pc = "generate",
                                       !.generateRequests = Bump(load.generateRequests)]]
                   /\ UNCHANGED lessonCache
    /\ UNCHANGED genVars /\ LoadFrame

\* ensureAudioOrTranscript: the playlist query after generation answers (or fails)
BundlePlaylist2Response(c) ==
    /\ client = "bundle" /\ loads[c].pc = "playlist2"
    /\ \E ok \in BOOLEAN, absolute \in BOOLEAN :
          LET playlist == IF ok THEN assemble(manifest.artifacts, absolute) ELSE <<>>
              segments == tryLoadAudioPlaylist(playlist, loads[c].lesson)
              load == [loads[c] EXCEPT !.playlist = playlist,
                                       !.answer = Answer(ok, playlist),
                                       !.emptyAfterGenerate = (ok /\ playlist = <<>>)]
          IN  IF Len(segments) > 0
              THEN BundleFinish(c, load, segments)
              ELSE BundleFinish(c, load, createTranscriptSegments(load.lesson))
    /\ UNCHANGED genVars /\ LoadFrame

\* useLessonData.fetchLessonData (the mount effect of LessonPage)
HookFetch(c) ==
    /\ client = "hook" /\ c = 1 /\ loads[c].pc = "idle"
    /\ loads' = [loads EXCEPT ![c] = [NoLoad EXCEPT !.pc = "lesson", !.now = clock,
                                                      !.key = <<"program-1", 1>>,
                                                      !.lessonFetches = 1]]
    /\ UNCHANGED <<lessonCache, genVars>> /\ LoadFrame

\* getProgramById and getSingleLesson answer; on both, loadAudioPlaylist starts
HookLessonResponse(c) ==
    /\ client = "hook" /\ loads[c].pc = "lesson"
    /\ \E found \in BOOLEAN :
          loads' = IF found
                   THEN [loads EXCEPT ![c].pc = "playlist",
                                      ![c].lesson = mapApiLessonToLessonData(RawLesson),
                                      ![c].playlistQueries = 1]
                   ELSE [loads EXCEPT ![c].pc = "failed"]
    /\ UNCHANGED <<lessonCache, genVars>> /\ LoadFrame

\* loadAudioPlaylist: the playlist query answers (or fails)
HookPlaylistResponse(c) ==
    /\ client = "hook" /\ loads[c].pc = "playlist"
    /\ \E ok \in BOOLEAN, absolute \in BOOLEAN :
          LET playlist == IF ok THEN assemble(manifest.artifacts, absolute) ELSE <<>>
              load == [loads[c] EXCEPT !.playlist = playlist,
                                       !.answer = Answer(ok, playlist),
                                       !.emptyAfterGenerate =
                                           (ok /\ playlist = <<>>
                                            /\ loads[c].generateRequests > 0)]
          IN  loads' = [loads EXCEPT ![c] =
                IF ~ok
                THEN [load EXCEPT !.pc = "done",
                         !.segments = useLessonData_createTranscriptSegments(load.lesson)]
                ELSE IF HasPlaylistItems(playlist)
                     THEN [load EXCEPT !.pc = "done",
                              !.segments = tryLoadAudioPlaylist(playlist, load.lesson)]
                     ELSE [load EXCEPT !.pc = "generate",
                              !.generateRequests = Bump(load.generateRequests)]]
    /\ UNCHANGED <<lessonCache, genVars>> /\ LoadFrame

\* generateLessonAudio: the generate request answers (or fails)
HookGenerateResponse(c) ==
    /\ client = "hook" /\ loads[c].pc = "generate"
    /\ \/ /\ loads' = [loads EXCEPT ![c].pc = "done",
                 ![c].segments = useLessonData_createTranscriptSegments(loads[c].lesson)]
          /\ UNCHANGED genVars
       \/ \E failing \in SUBSET (0..(Len(turns) - 1)), success \in BOOLEAN :
             /\ ServeGenerate(HookVoiceMapping, failing)
             /\ loads' = [loads EXCEPT ![c] =
                   IF success
                   THEN [@ EXCEPT !.pc = "playlist",
                                  !.playlistQueries = Bump(@)]
                   ELSE [@ EXCEPT !.pc = "done",
                            !.segments =
                                useLessonData_createTranscriptSegments(loads[c].lesson)]]
    /\ UNCHANGED lessonCache /\ LoadFrame

\* time passes
Tick ==
    /\ \E t \in {CACHE_DURATION - 1, CACHE_DURATION, CACHE_DURATION + 1,
                  2 * CACHE_DURATION} : t > clock /\ clock' = t
    /\ UNCHANGED <<playerVars, genVars, client, rawText, lessonCache, loads, progress>>

LoadIdle ==
    /\ client = "none"
    /\ rawText = [transcript |-> <<>>, content |-> <<>>]
    /\ clock = 0
    /\ lessonCache = <<>>
    /\ loads = [c \in 1..MaxLoads |-> NoLoad]
    /\ progress = NoProgress

-----------------------------------------------------------------------------
(* SpecGen: generate / regenerate requests against one lesson *)

\* POST generate-lesson-audio (regenerate = FALSE) / regenerate-lesson-audio
GenerateLessonAudio(regenerate) ==
    /\ genCalls < MaxGenCalls
    /\ \E voiceMapping \in VoiceMappings, failing \in SUBSET (0..(Len(turns) - 1)) :
          /\ manifest' = Generate(manifest, turns, voiceMapping, regenerate, failing)
          /\ lastCall' = [regenerate |-> regenerate, voiceMapping |-> voiceMapping,
                          failing |-> failing, before |-> manifest,
                          attempted |-> Attempted(manifest, turns, voiceMapping, regenerate),
                          filesGenerated |->
                              filesGenerated(manifest, turns, voiceMapping, regenerate, failing),
                          filesTotal |-> filesTotal(turns)]
    /\ genCalls' = genCalls + 1
    /\ store' = Put(store, manifest'.artifacts)
    /\ UNCHANGED <<turns, race>>

GenerateRequest == GenerateLessonAudio(FALSE) /\ UNCHANGED <<playerVars, loadVars>>

RegenerateRequest == GenerateLessonAudio(TRUE) /\ UNCHANGED <<playerVars, loadVars>>

\* the session calls api.regenerateLessonAudio for the lesson it has loaded;
\* the request does not reach lessonCache. Each returned load is marked as
\* older than the regeneration.
BundleRegenerate ==
    /\ client = "bundle"
    /\ \A c \in 1..MaxLoads : loads[c].pc \in {"idle", "done", "failed"}
    /\ \E c \in 1..MaxLoads : loads[c].pc = "done" /\ ~loads[c].regenerated
    /\ genCalls < MaxGenCalls
    /\ \E failing \in SUBSET (0..(Len(turns) - 1)) :
          /\ manifest' = Generate(manifest, turns, BundleVoiceMapping, TRUE, failing)
          /\ lastCall' = [regenerate |-> TRUE, voiceMapping |-> BundleVoiceMapping,
                          failing |-> failing, before |-> manifest,
                          attempted |-> Attempted(manifest, turns, BundleVoiceMapping, TRUE),
                          filesGenerated |->
                              filesGenerated(manifest, turns, BundleVoiceMapping, TRUE, failing),
                          filesTotal |-> filesTotal(turns)]
    /\ genCalls' = genCalls + 1
    /\ store' = Put(store, manifest'.artifacts)
    /\ UNCHANGED <<turns, race>>
    /\ loads' = [c \in 1..MaxLoads |->
                    IF loads[c].pc = "done"
                    THEN [loads[c] EXCEPT !.regenerated = TRUE] ELSE loads[c]]
    /\ UNCHANGED lessonCache /\ LoadFrame

-----------------------------------------------------------------------------
(* SpecPage *)

InitSt == [isPlaying |-> FALSE, currentSegmentIndex |-> 0, lessonStartTime |-> FALSE,
           showLearningQuestion |-> FALSE, isLessonCompleted |-> FALSE]

InitHist == [startLessonCalls |-> 0, audioCompleteCount |-> 0, completeRequests |-> 0,
             endedCount |-> 0, run |-> "init", restarts |-> 0,
             localMarks |-> 0, leaving |-> FALSE]

AudioPlaylist(n) == [i \in 1..n |-> AudioSeg(i - 1)]
TranscriptList(n) == [i \in 1..n |-> TextSeg(i - 1, "alloy", <<"a">>)]

\* primary_interaction.type of a lesson, or "none"
NoQuestion == [interaction |-> "none", pc |-> "input"]

\* the lessons of a page: context and primary_interaction
LessonKinds == { <<"home", "multiple_choice">>, <<"home", "none">>,
                 <<"driving", "multiple_choice">>,
                 <<"workout", "multiple_choice">>, <<"workout", "reflection_prompt">> }

InitPage ==
    /\ \E kind \in LessonKinds :
          /\ context = kind[1]
          /\ question = [NoQuestion EXCEPT !.interaction = kind[2]]
    /\ audioSegments \in {AudioPlaylist(n) : n \in 1..MaxSegs}
                         \cup {TranscriptList(n) : n \in 0..MaxSegs}
    /\ st = InitSt
    /\ rd = InitSt
    /\ audioSrc = NoUrl
    /\ audioState = "empty"
    /\ playPromise = "none"
    /\ completePc = "idle"
    /\ mounted = TRUE
    /\ hist = InitHist
    /\ GenIdle
    /\ LoadIdle

\* hist.run: "auto" while the only user action so far is the first play()
Manual(w) == [w EXCEPT !.hist.run = "manual"]

FirstPlay(w) == [w EXCEPT !.hist.run = IF hist.run = "init" /\ st = InitSt /\ rd = InitSt
                                       THEN "auto" ELSE "manual"]

\* a play() issued once the completion event was emitted
CountRestart(w) ==
    IF hist.audioCompleteCount > 0 /\ w.playPromise # "none" /\ w.audioState = "loading"
       /\ (playPromise = "none" \/ audioState # "loading" \/ w.audioSrc # audioSrc)
    THEN [w EXCEPT !.hist.restarts = Bump(w.hist.restarts)]
    ELSE w

PageFrame == UNCHANGED <<context, audioSegments, mounted, question, genVars, loadVars>>

\* click on the play/pause button of CurrentSegment
PlayPauseClick ==
    /\ mounted /\ PlayButtonEnabled
    /\ Apply(CountRestart(FirstPlay(handlePlayPause(World, rd))))
    /\ UNCHANGED rd /\ PageFrame

\* click on "Skip to Question"
SkipToQuestionClick ==
    /\ mounted /\ SkipButtonShown
    /\ Apply(Manual(handleSkipToQuestion(World, rd)))
    /\ UNCHANGED rd /\ PageFrame

\* click on a segment of TranscriptContainer
SegmentClick ==
    /\ mounted /\ TranscriptContainerShown
    /\ \E index \in 0..(Len(audioSegments) - 1) :
          Apply(Manual(handleSegmentClick(World, rd, index)))
    /\ UNCHANGED rd /\ PageFrame

\* the "Submit Answer" / "Retry Evaluation" button, with a valid answer
AnswerSubmit ==
    /\ mounted /\ LearningQuestionShown /\ shouldShowInteraction
    /\ question.pc \in {"input", "error"}
    /\ question' = [question EXCEPT !.pc = "evaluating"]
    /\ UNCHANGED <<context, audioSegments, st, rd, audioSrc, audioState, playPromise,
                   completePc, mounted, hist, genVars, loadVars>>

\* evaluateLessonAnswer answers (feedback) or fails (evaluationError)
EvaluationResponse ==
    /\ mounted /\ question.pc = "evaluating"
    /\ \E ok \in BOOLEAN :
          question' = [question EXCEPT !.pc = IF ok THEN "feedback" ELSE "error"]
    /\ UNCHANGED <<context, audioSegments, st, rd, audioSrc, audioState, playPromise,
                   completePc, mounted, hist, genVars, loadVars>>

\* the "Complete Lesson" button, rendered once feedback has arrived
CompleteButtonShown ==
    LearningQuestionShown /\ shouldShowInteraction /\ question.pc = "feedback"

\* the learner finishes the learning question (onLessonComplete)
QuestionComplete ==
    /\ mounted /\ CompleteButtonShown /\ completePc = "idle"
    /\ Apply(Manual(handleLessonComplete(World, rd)))
    /\ UNCHANGED rd /\ PageFrame

\* the play() promise resolves: playback begins
PlayResolved ==
    /\ mounted /\ playPromise # "none"
    /\ st' = IF playPromise \in {"handlePlayPause", "handleAudioEnded"}
             THEN [st EXCEPT !.isPlaying = TRUE] ELSE st
    /\ audioState' = "playing"
    /\ playPromise' = "none"
    /\ UNCHANGED <<audioSrc, completePc, hist, rd>> /\ PageFrame

\* the play() promise rejects: the sink refuses to play
PlayRejected ==
    /\ mounted /\ playPromise # "none"
    /\ Apply([RejectPending(World) EXCEPT !.audioState = "paused"])
    /\ UNCHANGED rd /\ PageFrame

\* the sink reaches the end of the current source: onEnded
AudioEnded ==
    /\ mounted /\ audioState = "playing" /\ rd = st
    /\ LET w == [World EXCEPT !.audioState = "ended",
                              !.hist.endedCount = Bump(hist.endedCount)]
       IN  Apply(CountRestart(handleAudioEnded(w, rd)))
    /\ UNCHANGED rd /\ PageFrame

\* the completion request is answered
CompleteResponse ==
    /\ mounted /\ completePc = "inflight"
    /\ \E success \in BOOLEAN :
          IF success
          THEN /\ mounted' = FALSE          \* markLessonCompleted, navigate('/programs')
               /\ hist' = [hist EXCEPT !.localMarks = Bump(hist.localMarks)]
               /\ UNCHANGED st
          ELSE /\ st' = [st EXCEPT !.isLessonCompleted = FALSE]
               /\ UNCHANGED <<mounted, hist>>
    /\ completePc' = "idle"
    /\ UNCHANGED <<context, audioSegments, rd, audioSrc, audioState, playPromise, question,
                   genVars, loadVars>>

\* markLessonCompleted has refreshed: navigate('/programs') unmounts the page
Leave ==
    /\ mounted /\ hist.leaving
    /\ mounted' = FALSE
    /\ audioState' = IF audioState \in {"loading", "playing"} THEN "paused" ELSE audioState
    /\ UNCHANGED <<context, audioSegments, st, rd, audioSrc, playPromise, completePc,
                   hist, question, genVars, loadVars>>

\* React re-renders: the callbacks capture the latest state
Render ==
    /\ mounted /\ rd # st
    /\ rd' = st
    /\ question' = IF st.showLearningQuestion /\ ~st.isLessonCompleted
                   THEN question
                   ELSE [question EXCEPT !.pc = "input"]   \* the panel is not rendered
    /\ UNCHANGED <<context, audioSegments, st, audioSrc, audioState, playPromise,
                   completePc, mounted, hist, genVars, loadVars>>

NextPage ==
    \/ PlayPauseClick
    \/ SkipToQuestionClick
    \/ SegmentClick
    \/ AnswerSubmit
    \/ EvaluationResponse
    \/ QuestionComplete
    \/ Leave
    \/ PlayResolved
    \/ PlayRejected
    \/ AudioEnded
    \/ CompleteResponse
    \/ Render

SpecPage == InitPage /\ [][NextPage]_vars

-----------------------------------------------------------------------------
(* SpecPlayer: useAudioPlayer under a consumer that offers every handler the
   hook returns at any time, as the hook itself allows *)

\* the consumer calls the handlers directly while fewer than this many
\* segments have ended
MaxNavEnded == 1

\* handleSegmentClick(index) is called on a non-empty list
HookSegmentClick ==
    /\ mounted /\ Len(audioSegments) > 0 /\ hist.endedCount < MaxNavEnded
    /\ \E index \in 0..(Len(audioSegments) - 1) :
          Apply(CountRestart(Manual(handleSegmentClick(World, rd, index))))
    /\ UNCHANGED rd /\ PageFrame

\* stopPlayback() is called
HookStop ==
    /\ mounted /\ hist.endedCount < MaxNavEnded
    /\ Apply(Manual(stopPlayback(World)))
    /\ UNCHANGED rd /\ PageFrame

NextPlayer ==
    \/ NextPage
    \/ HookSegmentClick
    \/ HookStop

SpecPlayer == InitPage /\ [][NextPlayer]_vars

\* the consumer hands the hook another segment list (the lesson data was
\* loaded again); the hook keeps isPlaying and currentSegmentIndex
HookReload ==
    /\ mounted /\ hist.endedCount < MaxNavEnded
    /\ \E n \in 1..MaxSegs :
          /\ AudioPlaylist(n) # audioSegments
          /\ audioSegments' = AudioPlaylist(n)
    /\ UNCHANGED <<context, st, rd, audioSrc, audioState, playPromise, completePc, mounted,
                   hist, question, genVars, loadVars>>

NextReload ==
    \/ NextPlayer
    \/ HookReload

SpecReload == InitPage /\ [][NextReload]_vars

PlayerIdle ==
    /\ context = "home"
    /\ question = NoQuestion
    /\ audioSegments = <<>>
    /\ st = InitSt
    /\ rd = InitSt
    /\ audioSrc = NoUrl
    /\ audioState = "empty"
    /\ playPromise = "none"
    /\ completePc = "idle"
    /\ mounted = FALSE
    /\ hist = InitHist

InitGen ==
    /\ PlayerIdle
    /\ LoadIdle
    /\ turns \in {Dialogue(n) : n \in 1..MaxTurns}
    /\ manifest = NoManifest
    /\ genCalls = 0
    /\ lastCall = NoCall
    /\ race = NoRace
    /\ store = NoStore

NextGen == GenerateRequest \/ RegenerateRequest

SpecGen == InitGen /\ [][NextGen]_vars

-----------------------------------------------------------------------------
(* SpecDelete: generate, regenerate and delete requests against one lesson *)

MaxDeletes == 2

\* ManifestStore.exists(lessonId)
exists == manifest.exists

\* the keys delete(lessonId) removes: the storage object of every artifact of
\* the manifest, then the manifest object
DeletedKeys(m) == IF m.exists THEN Append(StorageKeys(m.artifacts), ManifestKey) ELSE <<>>

\* a variant that leaves the manifest object in place
ManifestAfterDelete_kept(m) == m

\* the manifest object is removed with the artifacts
ManifestAfterDelete(m) == NoManifest

\* DELETE lessons/{lessonId}/audio; a storage failure fails the request
DeleteLessonAudio ==
    /\ store.deletes < MaxDeletes
    /\ \E ok \in BOOLEAN :
          IF ~ok
          THEN /\ store' = [store EXCEPT !.deletes = @ + 1, !.result = "failed",
                                          !.removed = <<>>]
               /\ UNCHANGED manifest
          ELSE /\ store' = [objects |-> store.objects \ Range(DeletedKeys(manifest)),
                            deletes |-> store.deletes + 1,
                            result |-> "success",
                            removed |-> DeletedKeys(manifest)]
               /\ manifest' = ManifestAfterDelete(manifest)
    /\ UNCHANGED <<turns, genCalls, lastCall, race>>

DeleteRequest == DeleteLessonAudio /\ UNCHANGED <<playerVars, loadVars>>

NextDelete == GenerateRequest \/ RegenerateRequest \/ DeleteRequest

SpecDelete == InitGen /\ [][NextDelete]_vars

-----------------------------------------------------------------------------
(* SpecRace: generate passes for one lesson that overlap in time *)

MaxRaceTurns == 2

\* the artifact a pass records for turn i; ok: synthesis and storage succeed
TurnArtifact(callNo, i, existing, ts, voiceMapping, regenerate, ok) ==
    LET speaker == ts[i + 1]
        voice == resolvedVoice(voiceMapping, speaker)
    IN  IF ~regenerate /\ HasUsableArtifact(existing, i, voice)
        THEN existing.artifacts[i + 1]
        ELSE IF ~ok
             THEN ErrorArtifact(i, speaker, voice)
             ELSE NewArtifact(<<"audio", callNo, i>>, i, speaker, voice)

InitRace ==
    /\ PlayerIdle
    /\ LoadIdle
    /\ turns \in {Dialogue(n) : n \in 1..MaxRaceTurns}
    /\ genCalls \in {0, 1}
    /\ manifest \in IF genCalls = 0 THEN {NoManifest}
                     ELSE { Generate(NoManifest, turns, vm, FALSE, failing) :
                              vm \in VoiceMappings,
                              failing \in SUBSET (0..(Len(turns) - 1)) }
    /\ lastCall = NoCall
    /\ race = [NoRace EXCEPT !.previous = manifest]
    /\ store = Put(NoStore, manifest.artifacts)

RaceFrame == UNCHANGED <<playerVars, loadVars, turns, lastCall>>

\* generate(lessonId, turns, voiceMapping, regenerate) begins: load the manifest
RaceBegin(p) ==
    /\ race.pass[p].pc = "idle"
    /\ \A q \in 1..(p - 1) : race.pass[q].pc # "idle"
    /\ \E voiceMapping \in VoiceMappings, regenerate \in BOOLEAN :
          race' = [race EXCEPT !.pass[p] =
                      [pc |-> "pass", callNo |-> genCalls + 1, existing |-> manifest,
                       voiceMapping |-> voiceMapping, regenerate |-> regenerate,
                       i |-> 0, acc |-> <<>>]]
    /\ genCalls' = genCalls + 1
    /\ UNCHANGED <<manifest, store>> /\ RaceFrame

\* a variant that saves the manifest after every turn
RaceTurn_savesEachTurn(p) ==
    LET pass == race.pass[p]
    IN  /\ pass.pc = "pass" /\ pass.i < Len(turns)
        /\ \E ok \in BOOLEAN :
              LET acc == Append(pass.acc,
                             TurnArtifact(pass.callNo, pass.i, pass.existing, turns,
                                          pass.voiceMapping, pass.regenerate, ok))
              IN  /\ race' = [race EXCEPT !.pass[p].acc = acc, !.pass[p].i = pass.i + 1]
                  /\ manifest' = [voiceMapping |-> pass.voiceMapping, artifacts |-> acc,
                                   exists |-> TRUE]
                  /\ store' = Put(store, acc)
        /\ UNCHANGED genCalls /\ RaceFrame

\* the pass processes its next turn: skip, or synthesize and store, or
\* record the error
RaceTurn(p) ==
    LET pass == race.pass[p]
    IN  /\ pass.pc = "pass" /\ pass.i < Len(turns)
        /\ \E ok \in BOOLEAN :
              race' = [race EXCEPT
                         !.pass[p].acc =
                             Append(pass.acc,
                                    TurnArtifact(pass.callNo, pass.i, pass.existing, turns,
                                                 pass.voiceMapping, pass.regenerate, ok)),
                         !.pass[p].i = pass.i + 1]
        /\ store' = Put(store, race'.pass[p].acc)
        /\ UNCHANGED <<manifest, genCalls>> /\ RaceFrame

\* all turns are processed: the pass persists the manifest in one write
RaceSave(p) ==
    LET pass == race.pass[p]
    IN  /\ pass.pc = "pass" /\ pass.i = Len(turns)
        /\ manifest' = [voiceMapping |-> pass.voiceMapping, artifacts |-> pass.acc,
                         exists |-> TRUE]
        /\ race' = [race EXCEPT !.pass[p].pc = "saved", !.lastWriter = p]
        /\ UNCHANGED <<genCalls, store>> /\ RaceFrame

NextRace == \E p \in 1..MaxRacers : RaceBegin(p) \/ RaceTurn(p) \/ RaceSave(p)

SpecRace == InitRace /\ [][NextRace]_vars

-----------------------------------------------------------------------------
(* SpecLoad: one client session loading one lesson *)

\* transcript and content of a lesson, as the API may return them
LessonTexts ==
    { [transcript |-> <<>>, content |-> <<>>],
      [transcript |-> <<>>, content |-> <<"a", ".">>],
      [transcript |-> <<"a", ".", " ", "a", ".">>, content |-> <<>>],
      [transcript |-> <<"a", "\n", "\n", "a">>, content |-> <<"a", ".">>] }

InitLoad ==
    /\ PlayerIdle
    /\ turns \in {Dialogue(n) : n \in 1..MaxLoadTurns}
    /\ genCalls \in {0, 1}
    /\ manifest \in IF genCalls = 0 THEN {NoManifest}
                     ELSE { Generate(NoManifest, turns, HookVoiceMapping, FALSE, failing) :
                              failing \in SUBSET (0..(Len(turns) - 1)) }
    /\ lastCall = NoCall
    /\ race = NoRace
    /\ store = Put(NoStore, manifest.artifacts)
    /\ client \in {"bundle", "hook"}
    /\ rawText \in LessonTexts
    /\ clock = 0
    /\ lessonCache = <<>>
    /\ loads = [c \in 1..MaxLoads |-> NoLoad]
    /\ progress = NoProgress

NextLoad ==
    \/ \E c \in 1..MaxLoads :
          \/ BundleStart(c)
          \/ BundleLessonResponse(c)
          \/ BundlePlaylistResponse(c)
          \/ BundleGenerateResponse(c)
          \/ BundlePlaylist2Response(c)
          \/ HookFetch(c)
          \/ HookLessonResponse(c)
          \/ HookPlaylistResponse(c)
          \/ HookGenerateResponse(c)
    \/ BundleRegenerate
    \/ Tick

SpecLoad == InitLoad /\ [][NextLoad]_vars

-----------------------------------------------------------------------------
(* SpecProgress: useLessonProgress for one program, every function the hook
   returns callable at any time; the server's lesson statuses change when a
   lesson is completed *)

\* completedLessons.includes(dayNumber)
Includes(seq, d) == \E i \in 1..Len(seq) : seq[i] = d

\* Math.max(...completedLessons) of a non-empty list
MaxOf(seq) == CHOOSE m \in Range(seq) : \A x \in Range(seq) : x <= m

\* insert x into an ascending list
RECURSIVE InsertAscending(_, _)
InsertAscending(seq, x) ==
    IF seq = <<>>
    THEN <<x>>
    ELSE IF x < Head(seq)
         THEN <<x>> \o seq
         ELSE <<Head(seq)>> \o InsertAscending(Tail(seq), x)

\* completedLessons.sort((a, b) => a - b)
RECURSIVE SortAscending(_)
SortAscending(seq) ==
    IF seq = <<>> THEN <<>> ELSE InsertAscending(SortAscending(Tail(seq)), Head(seq))

\* the loop of fetchProgramProgress over the days: those whose lesson
\* answered with status 'completed', in the order they were pushed
RECURSIVE CompletedFrom(_, _, _)
CompletedFrom(day, completed, failing) ==
    IF day > NumDays
    THEN <<>>
    ELSE IF day \in completed /\ day \notin failing
         THEN <<day>> \o CompletedFrom(day + 1, completed, failing)
         ELSE CompletedFrom(day + 1, completed, failing)

\* a variant without the cap at the last day
NextAvailable_uncapped(completedLessons) ==
    IF Len(completedLessons) > 0 THEN MaxOf(completedLessons) + 1 ELSE 1

\* the next available lesson of fetchProgramProgress
NextAvailable(completedLessons) ==
    IF Len(completedLessons) > 0
    THEN IF MaxOf(completedLessons) + 1 < NumDays THEN MaxOf(completedLessons) + 1 ELSE NumDays
    ELSE 1

\* the entry fetchProgramProgress stores
FetchedEntry(completed, failing) ==
    LET completedLessons == SortAscending(CompletedFrom(1, completed, failing))
    IN  [exists |-> TRUE, completedLessons |-> completedLessons,
         currentLesson |-> NextAvailable(completedLessons)]

\* the functional update of markLessonCompleted
MarkedEntry(prev, dayNumber) ==
    LET programProgress == IF prev.exists THEN prev ELSE DefaultEntry
        completedLessons == IF ~Includes(programProgress.completedLessons, dayNumber)
                            THEN SortAscending(Append(programProgress.completedLessons,
                                                      dayNumber))
                            ELSE programProgress.completedLessons
        nextLesson == MaxOf(completedLessons) + 1
    IN  [programProgress EXCEPT !.completedLessons = completedLessons,
                                !.currentLesson = IF nextLesson < NumDays THEN nextLesson
                                                  ELSE NumDays]

isLessonAvailable(dayNumber) ==
    IF ~progress.state.exists
    THEN dayNumber = 1
    ELSE IF dayNumber = 1
         THEN TRUE
         ELSE Includes(progress.state.completedLessons, dayNumber - 1)

FreeFetches(pg) == { f \in 1..MaxFetches : pg.fetches[f].pc = "idle" }

\* fetchProgramProgress can be called: it returns at once, or has a slot
CanFetch(pg) == pg.rdLoading \/ FreeFetches(pg) # {}

\* fetchProgramProgress up to getProgramById, under the loadingPrograms of
\* the render that made the callback
StartFetch(pg) ==
    IF pg.rdLoading
    THEN pg
    ELSE LET f == CHOOSE g \in FreeFetches(pg) : \A h \in FreeFetches(pg) : g <= h
         IN  [pg EXCEPT !.loading = TRUE, !.fetches[f] = [pc |-> "program"]]

ProgressFrame ==
    UNCHANGED <<playerVars, genVars, client, rawText, clock, lessonCache, loads>>

\* markLessonCompleted(programId, dayNumber)
MarkLessonCompleted(dayNumber) ==
    /\ CanFetch(progress)
    /\ progress' = StartFetch([progress EXCEPT
                                  !.state = MarkedEntry(progress.state, dayNumber)])
    /\ ProgressFrame

\* refreshProgramProgress(programId)
RefreshProgramProgress ==
    /\ ~progress.rdLoading /\ FreeFetches(progress) # {}
    /\ progress' = StartFetch(progress)
    /\ ProgressFrame

\* initializeProgram(programId)
InitializeProgram ==
    /\ CanFetch(progress)
    /\ progress' = StartFetch([progress EXCEPT
                                  !.state = IF progress.state.exists THEN progress.state
                                            ELSE DefaultEntry])
    /\ ProgressFrame

\* resetProgramProgress(programId)
ResetProgramProgress ==
    /\ progress.state.exists
    /\ progress' = [progress EXCEPT !.state = NoEntry]
    /\ ProgressFrame

\* getProgramById answers: a program, null, or an error
ProgramResponse(f) ==
    /\ progress.fetches[f].pc = "program"
    /\ \E outcome \in {"found", "null", "throws"} :
          progress' =
             IF outcome = "found"
             THEN [progress EXCEPT !.fetches[f] = [pc |-> "lessons"]]
             ELSE IF outcome = "null"
                  THEN [progress EXCEPT !.fetches[f] = NoFetch, !.loading = FALSE]
                  ELSE [progress EXCEPT !.fetches[f] = NoFetch, !.loading = FALSE,
                                        !.state = DefaultEntry]
    /\ ProgressFrame

\* the getSingleLesson calls of the loop have answered; `failing` are the
\* days whose call threw or brought no lesson
LessonsResponse(f) ==
    /\ progress.fetches[f].pc = "lessons"
    /\ \E failing \in SUBSET Days :
          progress' = [progress EXCEPT !.fetches[f] = NoFetch, !.loading = FALSE,
                                       !.state = FetchedEntry(progress.server, failing)]
    /\ ProgressFrame

\* React re-renders: the callbacks capture loadingPrograms
RenderProgress ==
    /\ progress.rdLoading # progress.loading
    /\ progress' = [progress EXCEPT !.rdLoading = progress.loading]
    /\ ProgressFrame

\* the server records the completion of a lesson (completeLesson confirmed)
ServerComplete(dayNumber) ==
    /\ dayNumber \notin progress.server
    /\ progress' = [progress EXCEPT !.server = @ \cup {dayNumber}]
    /\ ProgressFrame

InitProgress ==
    /\ PlayerIdle
    /\ GenIdle
    /\ LoadIdle

NextProgress ==
    \/ \E dayNumber \in Days : MarkLessonCompleted(dayNumber)
    \/ RefreshProgramProgress
    \/ InitializeProgram
    \/ ResetProgramProgress
    \/ \E f \in 1..MaxFetches : ProgramResponse(f)
    \/ \E f \in 1..MaxFetches : LessonsResponse(f)
    \/ RenderProgress
    \/ \E dayNumber \in Days : ServerComplete(dayNumber)

SpecProgress == InitProgress /\ [][NextProgress]_vars

-----------------------------------------------------------------------------
(* SpecNav: the programs page with its day cards, and the lesson route *)

\* click on the card of an available day: navigate to the lesson page
DayCardClick(dayNumber) ==
    /\ progress.opened = 0
    /\ isLessonAvailable(dayNumber)
    /\ progress' = [NoProgress EXCEPT !.server = progress.server, !.opened = dayNumber]
    /\ ProgressFrame

\* the route /programs/:programId/lesson/:dayNumber is entered directly:
\* the init effect of LessonPage loads the lesson without an availability check
OpenLessonRoute(dayNumber) ==
    /\ progress.opened = 0
    /\ progress' = [NoProgress EXCEPT !.server = progress.server, !.opened = dayNumber]
    /\ ProgressFrame

\* the lesson is played and completed: the server confirms
LessonCompleted ==
    /\ progress.opened # 0
    /\ ServerComplete(progress.opened)

\* back to /programs: the programs page mounts with an empty progress state
BackToPrograms ==
    /\ progress.opened # 0
    /\ progress' = [progress EXCEPT !.opened = 0]
    /\ ProgressFrame

\* the programs page starts or continues a program, or refreshes
ProgramsPageStep ==
    /\ progress.opened = 0
    /\ \/ InitializeProgram
       \/ RefreshProgramProgress
       \/ \E f \in 1..MaxFetches : ProgramResponse(f)
       \/ \E f \in 1..MaxFetches : LessonsResponse(f)
       \/ RenderProgress

NextNav ==
    \/ ProgramsPageStep
    \/ \E dayNumber \in Days : DayCardClick(dayNumber)
    \/ \E dayNumber \in Days : OpenLessonRoute(dayNumber)
    \/ LessonCompleted
    \/ BackToPrograms

SpecNav == InitProgress /\ [][NextNav]_vars

-----------------------------------------------------------------------------
(* SpecUnmount: LessonPage from its mount effect to after it is unmounted.
   loads[1] is the fetchLessonData call of the mount effect; its segments
   field is what the call passed to setAudioSegments, and audioSegments is
   the state React has committed. *)

InitUnmount ==
    /\ context \in {"home", "driving"}
    /\ question = [NoQuestion EXCEPT !.interaction = "multiple_choice"]
    /\ audioSegments = <<>>
    /\ st = InitSt
    /\ rd = InitSt
    /\ audioSrc = NoUrl
    /\ audioState = "empty"
    /\ playPromise = "none"
    /\ completePc = "idle"
    /\ mounted = TRUE
    /\ hist = InitHist
    /\ turns \in {Dialogue(n) : n \in 1..MaxLoadTurns}
    /\ genCalls \in {0, 1}
    /\ manifest \in IF genCalls = 0 THEN {NoManifest}
                     ELSE { Generate(NoManifest, turns, HookVoiceMapping, FALSE, {}) }
    /\ lastCall = NoCall
    /\ race = NoRace
    /\ store = Put(NoStore, manifest.artifacts)
    /\ client = "hook"
    /\ rawText = [transcript |-> <<"a", ".", " ", "a", ".">>, content |-> <<>>]
    /\ clock = 0
    /\ lessonCache = <<>>
    /\ loads = [c \in 1..MaxLoads |-> NoLoad]
    /\ progress = NoProgress

\* React commits the state the fetch has set: the page renders the segments
Commit ==
    /\ mounted /\ loads[1].pc = "done" /\ audioSegments # loads[1].segments
    /\ audioSegments' = loads[1].segments
    /\ rd' = st
    /\ UNCHANGED <<context, st, audioSrc, audioState, playPromise, completePc, mounted,
                   hist, question, genVars, loadVars>>

\* handleBackClick: navigate('/programs') unmounts the page; the <audio>
\* element leaves the document and is paused. Nothing cancels the pending
\* play() promise or the requests in flight.
Unmount ==
    /\ mounted
    /\ mounted' = FALSE
    /\ audioState' = IF audioState \in {"loading", "playing"} THEN "paused" ELSE audioState
    /\ UNCHANGED <<context, audioSegments, st, rd, audioSrc, playPromise, completePc,
                   hist, question, genVars, loadVars>>

\* a variant in which the callbacks of the promise still reach the state
PlayAbandoned_setsState ==
    /\ ~mounted /\ playPromise # "none"
    /\ playPromise' = "none"
    /\ st' = IF playPromise = "handlePlayPause" THEN [st EXCEPT !.isPlaying = FALSE] ELSE st
    /\ UNCHANGED <<context, audioSegments, rd, audioSrc, audioState, completePc, mounted,
                   hist, question, genVars, loadVars>>

\* the play() promise pending at unmount rejects (the element was paused):
\* .catch calls setIsPlaying on the unmounted component, which React drops
PlayAbandoned ==
    /\ ~mounted /\ playPromise # "none"
    /\ playPromise' = "none"
    /\ UNCHANGED <<context, audioSegments, st, rd, audioSrc, audioState, completePc,
                   mounted, hist, question, genVars, loadVars>>

\* the completion request in flight at unmount is answered:
\* setIsLessonCompleted on the unmounted component is dropped
CompleteAbandoned ==
    /\ ~mounted /\ completePc = "inflight"
    /\ completePc' = "idle"
    /\ UNCHANGED <<context, audioSegments, st, rd, audioSrc, audioState, playPromise,
                   mounted, hist, question, genVars, loadVars>>

NextUnmount ==
    \/ HookFetch(1)
    \/ HookLessonResponse(1)
    \/ HookPlaylistResponse(1)
    \/ HookGenerateResponse(1)
    \/ Commit
    \/ NextPage
    \/ Unmount
    \/ PlayAbandoned
    \/ CompleteAbandoned

SpecUnmount == InitUnmount /\ [][NextUnmount]_vars

\* a request of a loadLessonBundle call is settled
BundleSettle ==
    \E c \in 1..MaxLoads :
        \/ BundleLessonResponse(c)
        \/ BundlePlaylistResponse(c)
        \/ BundleGenerateResponse(c)
        \/ BundlePlaylist2Response(c)

\* every request is settled in the end: fetch resolves or rejects
LoadFairness == WF_vars(BundleSettle)

\* SpecMiss: loadLessonBundle calls alone, at one time, each request settled
InitMiss == InitLoad /\ client = "bundle"

NextMiss ==
    \E c \in 1..MaxLoads :
        \/ BundleStart(c)
        \/ BundleLessonResponse(c)
        \/ BundlePlaylistResponse(c)
        \/ BundleGenerateResponse(c)
        \/ BundlePlaylist2Response(c)

SpecMiss == InitMiss /\ [][NextMiss]_vars /\ LoadFairness

-----------------------------------------------------------------------------
(* Claims on SpecGen *)

ErrorTurns(m) == { i \in 0..(Len(m.artifacts) - 1) : m.artifacts[i + 1].error }

\* the last pass was a generate (regenerate = false) over an existing manifest,
\* with the voice mapping that manifest was generated with
SecondGenerate ==
    /\ lastCall.before.exists
    /\ ~lastCall.regenerate
    /\ lastCall.voiceMapping = lastCall.before.voiceMapping

C6_PartialFailureIsolation ==
    (genCalls >= 1) =>
        /\ Len(manifest.artifacts) = Len(turns)
        /\ \A k \in 0..(Len(turns) - 1) :
              /\ manifest.artifacts[k + 1].chunkIndex = k
              /\ k \in lastCall.attempted =>
                    (manifest.artifacts[k + 1].error <=> k \in lastCall.failing)
        /\ lastCall.filesTotal = Len(turns)
        /\ lastCall.filesGenerated =
              Cardinality({k \in lastCall.attempted : ~manifest.artifacts[k + 1].error})
        /\ (lastCall.attempted = 0..(Len(turns) - 1)) =>
              /\ ErrorTurns(manifest) = lastCall.failing
              /\ lastCall.filesGenerated = Len(turns) - Cardinality(ErrorTurns(manifest))

C6_Witness ==
    /\ genCalls = 1
    /\ Len(turns) = 4
    /\ lastCall.failing = {2}
    /\ ErrorTurns(manifest) = {2}
    /\ lastCall.filesGenerated = 3
    /\ lastCall.filesTotal = 4

-----------------------------------------------------------------------------
(* Claims on SpecPage *)

\* C1: playback sequencing.  In a run whose only user action is the first
\* play() at index 0 of an all-audio playlist of N segments, after k natural
\* ends (k <= N always) the index is k (N-1 once k = N), every non-final end
\* has loaded the next segment's stream URL into the sink and asked it to
\* play, and the completion callback has fired exactly once iff k = N.
C1_PlaybackSequencing ==
    (hist.run = "auto") =>
        LET N == Len(audioSegments)
            k == hist.endedCount
        IN  /\ k <= N
            /\ st.currentSegmentIndex = (IF k < N THEN k ELSE N - 1)
            /\ hist.audioCompleteCount = (IF k = N THEN 1 ELSE 0)
            /\ audioSrc = audioSegments[st.currentSegmentIndex + 1].stream_url
            /\ (k >= 1 /\ k < N) =>
                   \/ audioState = "loading" /\ playPromise = "handleAudioEnded"
                   \/ audioState = "playing"
                   \/ audioState = "paused" /\ playPromise = "none"
            /\ (k = N) => audioState = "ended" /\ playPromise = "none" /\ ~st.isPlaying

C1_Witness ==
    /\ hist.run = "auto"
    /\ Len(audioSegments) = 3
    /\ hist.endedCount = 3
    /\ st.currentSegmentIndex = 2
    /\ hist.audioCompleteCount = 1

\* C9 (as claimed): Completed is terminal.  Once the completion event was
\* emitted, no play() is issued to the sink again and no second completion
\* event is emitted in the same lesson view.
C9_CompletedIsTerminal ==
    /\ hist.restarts = 0
    /\ hist.audioCompleteCount <= 1

\* C10 (as claimed): the startLesson request is issued exactly once per
\* mount: once the lesson has been started, exactly one request was sent.
C10_StartedExactlyOnce ==
    st.lessonStartTime => hist.startLessonCalls = 1

-----------------------------------------------------------------------------
(* SpecCache: one session calling loadLessonBundle for day after day, each
   call awaited before the next; the requests between the cache check and
   the return are one answer *)

MaxKeys == 22

MaxTicks == 1

Min(S) == CHOOSE x \in S : \A y \in S : x <= y

InFlight(c) == loads[c].pc = "lesson"

\* the days whose bundle is cached or being loaded
KnownDays ==
    { lessonCache[i].key[2] : i \in 1..Len(lessonCache) }
        \cup { loads[c].key[2] : c \in { d \in 1..MaxLoads : InFlight(d) } }

\* the session asks for the first day it has no bundle of, or again for the
\* day first in the cache
DaysToAsk ==
    (IF (1..MaxKeys) \subseteq KnownDays THEN {} ELSE {Min((1..MaxKeys) \ KnownDays)})
        \cup (IF lessonCache = <<>> THEN {} ELSE {lessonCache[1].key[2]})

\* the clock has been advanced this many times
Ticks == (clock \div (CACHE_DURATION + 1)) + (clock % (CACHE_DURATION + 1))

\* Date.now() at a call: the time of the call before, a millisecond later,
\* or more than the cache duration later
Now == {clock} \cup (IF Ticks < MaxTicks THEN {clock + 1, clock + CACHE_DURATION + 1} ELSE {})

InitCache ==
    /\ PlayerIdle
    /\ GenIdle
    /\ client = "cache"
    /\ rawText = [transcript |-> <<"a">>, content |-> <<>>]
    /\ clock = 0
    /\ lessonCache = <<>>
    /\ loads = [c \in 1..MaxLoads |-> NoLoad]
    /\ progress = NoProgress

\* loadLessonBundle(programId, day) is called: cache check, else getSingleLesson
CacheLoadStart(c) ==
    /\ client = "cache"
    /\ c = 1
    /\ \A d \in 1..MaxLoads : ~InFlight(d)
    /\ \E day \in DaysToAsk, now \in Now :
          LET key == <<"program-1", day>>
          IN  /\ clock' = now
              /\ IF CacheHas(lessonCache, key) /\ IsFresh(CacheGet(lessonCache, key), now)
                 THEN loads' = [loads EXCEPT ![c] =
                          [NoLoad EXCEPT !.pc = "done", !.key = key, !.now = now,
                                         !.hit = TRUE,
                                         !.lesson = CacheGet(lessonCache, key).lesson,
                                         !.segments = CacheGet(lessonCache, key).segments]]
                 ELSE loads' = [loads EXCEPT ![c] =
                          [NoLoad EXCEPT !.pc = "lesson", !.key = key, !.now = now,
                                         !.lessonFetches = 1]]
    /\ UNCHANGED <<playerVars, genVars, client, rawText, lessonCache, progress>>

\* the call obtains the lesson and its segments and returns, or the lesson
\* fetch fails and the call throws
CacheLoadReturn(c) ==
    /\ client = "cache" /\ InFlight(c)
    /\ \/ LET lesson == mapApiLessonToLessonData(RawLesson)
          IN  BundleFinish(c, [loads[c] EXCEPT !.lesson = lesson],
                           createTranscriptSegments(lesson))
       \/ /\ loads' = [loads EXCEPT ![c].pc = "failed"]
          /\ UNCHANGED lessonCache
    /\ UNCHANGED genVars /\ LoadFrame

NextCache == \E c \in 1..MaxLoads : CacheLoadStart(c) \/ CacheLoadReturn(c)

SpecCache == InitCache /\ [][NextCache]_vars

-----------------------------------------------------------------------------
(* SpecOverlap: callers of loadLessonBundle that do not await each other, on
   lessons without audio: the playlist query brings nothing, generation is
   requested and the transcript is the result *)

Loading(c) == loads[c].pc \in {"lesson", "generate"}

LoadingDays == { loads[c].key[2] : c \in { d \in 1..MaxLoads : Loading(d) } }

\* the day after the last one that is cached or being loaded
FirstNewDay ==
    LET known == { lessonCache[i].key[2] : i \in 1..Len(lessonCache) } \cup LoadingDays
        next == IF known = {} THEN 1 ELSE (CHOOSE m \in known : \A x \in known : x <= m) + 1
    IN  IF next <= MaxKeys THEN {next} ELSE {}

\* caller 1 makes one call, at any time: for a new day, for a day that is
\* being loaded, or for the day first in the cache; the other callers are a
\* session that goes from day to day, one call at a time
OverlapDaysToAsk(c) ==
    IF c = 1
    THEN FirstNewDay \cup LoadingDays
            \cup (IF lessonCache = <<>> THEN {} ELSE {lessonCache[1].key[2]})
    ELSE FirstNewDay

OverlapMayCall(c) ==
    IF c = 1
    THEN loads[c].pc = "idle"
    ELSE \A d \in 2..MaxLoads : ~Loading(d) /\ (d < c => loads[d].pc # "idle")

InitOverlap ==
    /\ PlayerIdle
    /\ GenIdle
    /\ client = "overlap"
    /\ rawText = [transcript |-> <<"a">>, content |-> <<>>]
    /\ clock = 0
    /\ lessonCache = <<>>
    /\ loads = [c \in 1..MaxLoads |-> NoLoad]
    /\ progress = NoProgress

\* loadLessonBundle(programId, day) is called, a millisecond after the call
\* before: cache check, else getSingleLesson
OverlapStart(c) ==
    /\ client = "overlap"
    /\ OverlapMayCall(c)
    /\ \E day \in OverlapDaysToAsk(c), now \in {clock + 1} :
          LET key == <<"program-1", day>>
          IN  /\ clock' = now
              /\ IF CacheHas(lessonCache, key) /\ IsFresh(CacheGet(lessonCache, key), now)
                 THEN loads' = [loads EXCEPT ![c] =
                          [NoLoad EXCEPT !.pc = "done", !.key = key, !.now = now,
                                         !.hit = TRUE,
                                         !.lesson = CacheGet(lessonCache, key).lesson,
                                         !.segments = CacheGet(lessonCache, key).segments]]
                 ELSE loads' = [loads EXCEPT ![c] =
                          [NoLoad EXCEPT !.pc = "lesson", !.key = key, !.now = now,
                                         !.lessonFetches = 1]]
    /\ UNCHANGED <<playerVars, genVars, client, rawText, lessonCache, progress>>

\* getSingleLesson answers (the lessons of the session exist); on a lesson the
\* playlist query brings no segment and ensureAudioOrTranscript sends the
\* generate request
OverlapLessonResponse(c) ==
    /\ client = "overlap" /\ loads[c].pc = "lesson"
    /\ \E found \in (IF c = 1 THEN BOOLEAN ELSE {TRUE}) :
          loads' = IF found
                   THEN [loads EXCEPT ![c].pc = "generate",
                                      ![c].lesson = mapApiLessonToLessonData(RawLesson),
                                      ![c].playlistQueries = 1,
                                      ![c].answer = "empty",
                                      ![c].generateRequests = 1]
                   ELSE [loads EXCEPT ![c].pc = "failed"]
    /\ UNCHANGED <<lessonCache, genVars>> /\ LoadFrame

\* the generate request fails or brings no audio: the transcript is cached
OverlapGenerateResponse(c) ==
    /\ client = "overlap" /\ loads[c].pc = "generate"
    /\ BundleFinish(c, loads[c], createTranscriptSegments(loads[c].lesson))
    /\ UNCHANGED genVars /\ LoadFrame

NextOverlap ==
    \E c \in 1..MaxLoads :
        \/ OverlapStart(c)
        \/ OverlapLessonResponse(c)
        \/ OverlapGenerateResponse(c)

SpecOverlap == InitOverlap /\ [][NextOverlap]_vars

-----------------------------------------------------------------------------
(* SpecText: the two transcript builders on every short lesson text *)

MaxTextLen == 5

TextAlphabet == {"a", ".", " ", "\n"}

LessonTextsUpTo(n) == UNION { [1..k -> TextAlphabet] : k \in 0..n }

InitText ==
    /\ PlayerIdle
    /\ GenIdle
    /\ client \in {"bundle", "hook"}
    /\ rawText \in [transcript : LessonTextsUpTo(MaxTextLen), content : {<<>>, <<"a">>}]
    /\ clock = 0
    /\ lessonCache = <<>>
    /\ loads = [c \in 1..MaxLoads |-> NoLoad]
    /\ progress = NoProgress

\* the segments belong to load 1: createTranscriptSegments(lesson)
Built(segments) ==
    /\ loads[1].pc = "idle"
    /\ loads' = [loads EXCEPT ![1] =
           [NoLoad EXCEPT !.pc = "done", !.lesson = mapApiLessonToLessonData(RawLesson),
                          !.segments = segments]]
    /\ UNCHANGED <<lessonCache, genVars>> /\ LoadFrame

BundleBuildTranscript ==
    /\ client = "bundle"
    /\ Built(createTranscriptSegments(mapApiLessonToLessonData(RawLesson)))

HookBuildTranscript ==
    /\ client = "hook"
    /\ Built(useLessonData_createTranscriptSegments(mapApiLessonToLessonData(RawLesson)))

NextText == BundleBuildTranscript \/ HookBuildTranscript

SpecText == InitText /\ [][NextText]_vars

-----------------------------------------------------------------------------
(* Claims checked on SpecLoad and SpecGen: the loaders *)

IsAudio(seg) == seg.stream_url # NoUrl

IsTranscript(seg) == seg.stream_url = NoUrl

AllAudio(segments) == \A i \in 1..Len(segments) : IsAudio(segments[i])

AllTranscript(segments) == \A i \in 1..Len(segments) : IsTranscript(segments[i])

StrictlyIncreasing(items) ==
    \A i, j \in 1..Len(items) : i < j => items[i].chunk_index < items[j].chunk_index

Ended(load) == load.pc = "done" /\ ~load.hit

\* C2: a load that found the playlist still empty after a generate request
\* that reported success has ended, with a non-empty list of transcript
\* segments (no further playlist or generate request follows)
C2_FallbackCorrectness ==
    \A c \in 1..MaxLoads :
        loads[c].emptyAfterGenerate =>
            /\ loads[c].pc = "done"
            /\ Len(loads[c].segments) > 0
            /\ AllTranscript(loads[c].segments)

\* C3: a load whose last playlist query brought items hands over exactly
\* those items, in playlist order, each with an absolute stream URL; a load
\* whose last query was empty or failed hands over the transcript segments;
\* no load and no cache entry mixes audio and transcript segments
C3_PartialSuccessRendered ==
    /\ \A c \in 1..MaxLoads :
          Ended(loads[c]) =>
             LET load == loads[c]
             IN  IF load.answer = "items"
                 THEN /\ Len(load.segments) = Len(load.playlist)
                      /\ \A i \in 1..Len(load.segments) :
                            /\ load.segments[i].audio_id = load.playlist[i].audio_id
                            /\ load.segments[i].chunk_index = load.playlist[i].chunk_index
                            /\ load.segments[i].speaker = load.playlist[i].speaker
                            /\ StartsWithHttp(load.segments[i].stream_url)
                 ELSE /\ AllTranscript(load.segments)
                      /\ load.segments =
                            IF client = "bundle"
                            THEN createTranscriptSegments(load.lesson)
                            ELSE useLessonData_createTranscriptSegments(load.lesson)
    /\ \A c \in 1..MaxLoads :
          loads[c].pc = "done" =>
             AllAudio(loads[c].segments) \/ AllTranscript(loads[c].segments)
    /\ \A i \in 1..Len(lessonCache) :
          AllAudio(lessonCache[i].segments) \/ AllTranscript(lessonCache[i].segments)

\* a load ended with the audio of a playlist from which a failed turn is missing
C3_Witness ==
    \E c \in 1..MaxLoads :
        /\ Ended(loads[c])
        /\ loads[c].answer = "items"
        /\ Len(loads[c].playlist) < Len(turns)
        /\ Len(loads[c].segments) > 0
        /\ AllAudio(loads[c].segments)

\* a loadLessonBundle call begins in this step
Called(c) == client = "bundle" /\ loads[c].pc = "idle" /\ loads'[c].pc # "idle"

\* a loadLessonBundle call returns or throws in this step
Returned(c) ==
    /\ client = "bundle"
    /\ loads[c].pc \notin {"idle", "done", "failed"}
    /\ loads'[c].pc \in {"done", "failed"}

\* the age of the entry a call finds
Age(key) == clock - CacheGet(lessonCache, key).timestamp

\* a call that finds an entry younger than 300 s returns its lesson and
\* segments in the same step, with no request and the cache untouched
HitReturnsCached(c) ==
    LET key == loads'[c].key
    IN  (Called(c) /\ CacheHas(lessonCache, key) /\ Age(key) < 300 * 1000) =>
            /\ loads'[c].pc = "done"
            /\ loads'[c].lesson = CacheGet(lessonCache, key).lesson
            /\ loads'[c].segments = CacheGet(lessonCache, key).segments
            /\ loads'[c].lessonFetches = 0
            /\ loads'[c].playlistQueries = 0
            /\ loads'[c].generateRequests = 0
            /\ UNCHANGED <<lessonCache, genVars>>

\* a call that finds an entry older than 300 s fetches the lesson
StaleFetches(c) ==
    LET key == loads'[c].key
    IN  (Called(c) /\ CacheHas(lessonCache, key) /\ Age(key) > 300 * 1000) =>
            /\ loads'[c].pc = "lesson"
            /\ loads'[c].lessonFetches = 1

\* the call found an entry older than 300 s
FoundStale(c) ==
    /\ CacheHas(lessonCache, loads[c].key)
    /\ loads[c].now - CacheGet(lessonCache, loads[c].key).timestamp > 300 * 1000

\* the entry of the key is the result of call c, stamped with its start
Replaced(c) ==
    /\ CacheHas(lessonCache', loads'[c].key)
    /\ CacheGet(lessonCache', loads'[c].key) =
          [key |-> loads'[c].key, lesson |-> loads'[c].lesson,
           segments |-> loads'[c].segments, timestamp |-> loads'[c].now]

\* C4 as stated: a call within 300 s of fetchedAt returns the cached lesson
\* and segments without any request; a call more than 300 s after it
\* fetches the lesson and, when it is over, has replaced the entry
C4_CacheTTL_AlwaysReplaces ==
    [][\A c \in 1..MaxLoads :
          /\ HitReturnsCached(c)
          /\ StaleFetches(c)
          /\ (Returned(c) /\ FoundStale(c)) => Replaced(c)]_vars

\* C4, amended: as above, but the entry is replaced when the call returns a
\* bundle; a call whose lesson fetch fails leaves the expired entry in place
C4_CacheTTL ==
    [][\A c \in 1..MaxLoads :
          /\ HitReturnsCached(c)
          /\ StaleFetches(c)
          /\ (Returned(c) /\ FoundStale(c)) =>
                IF loads'[c].pc = "done" THEN Replaced(c) ELSE UNCHANGED lessonCache]_vars

\* the second call came more than 300 s after the first, fetched the lesson
\* again and replaced the entry of the first
C4_Witness ==
    /\ client = "bundle"
    /\ Ended(loads[1]) /\ Ended(loads[2])
    /\ loads[2].now - loads[1].now > 300 * 1000
    /\ loads[2].lessonFetches = 1
    /\ Len(lessonCache) = 1
    /\ lessonCache[1].timestamp = loads[2].now

\* the client segments of a manifest's playlist
ClientSegments(absolute) ==
    tryLoadAudioPlaylist(assemble(manifest.artifacts, absolute),
                         mapApiLessonToLessonData(RawLesson))

\* C7: a saved manifest holds one artifact per dialogue turn, the i-th with
\* chunkIndex i; the playlist assembled from it and the client segments
\* built from the playlist are strictly increasing in chunk_index and list
\* the non-error turns
C7_OrderPreservation ==
    manifest.exists =>
        /\ Len(manifest.artifacts) = Len(turns)
        /\ \A i \in 0..(Len(turns) - 1) : manifest.artifacts[i + 1].chunkIndex = i
        /\ \A absolute \in BOOLEAN :
              LET playlist == assemble(manifest.artifacts, absolute)
                  segments == ClientSegments(absolute)
              IN  /\ StrictlyIncreasing(playlist)
                  /\ StrictlyIncreasing(segments)
                  /\ Len(segments) = Len(playlist)
                  /\ { playlist[i].chunk_index : i \in 1..Len(playlist) }
                        = (0..(Len(turns) - 1)) \ ErrorTurns(manifest)
                  /\ \A i \in 1..Len(playlist) :
                        segments[i].chunk_index = playlist[i].chunk_index

\* after a regenerate call with a failed turn in the middle, the playlist
\* still has two items or more
C7_Witness ==
    /\ manifest.exists
    /\ genCalls >= 2
    /\ lastCall.regenerate
    /\ ErrorTurns(manifest) # {}
    /\ 0 \notin ErrorTurns(manifest)
    /\ Len(ClientSegments(FALSE)) >= 2

\* C8: every audio segment a load hands over carries the text of the
\* conversation chunk whose index is the segment's chunk_index
C8_SegmentTextOfItsTurn ==
    \A c \in 1..MaxLoads :
        (Ended(loads[c]) /\ loads[c].answer = "items") =>
            \A i \in 1..Len(loads[c].segments) :
                loads[c].segments[i].text = ChunkText(loads[c].segments[i].chunk_index)

-----------------------------------------------------------------------------
(* Claims checked on SpecPlayer *)

\* the sink has been asked to play and has not stopped
SinkInProgress == audioState \in {"loading", "playing"}

\* this step is a call of handleSegmentClick(index)
SegmentClicked(index) ==
    /\ mounted /\ Len(audioSegments) > 0 /\ hist.endedCount < MaxNavEnded
    /\ Apply(CountRestart(Manual(handleSegmentClick(World, rd, index))))
    /\ UNCHANGED rd

\* C11: a call of handleSegmentClick(i) sets currentSegmentIndex to i; when
\* playback was in progress the sink is loading segment i afterwards,
\* otherwise the sink is left as it was, not started, and isPlaying is false
C11_SkipToIndex ==
    [][\A index \in 0..(MaxSegs - 1) :
          (index < Len(audioSegments) /\ SegmentClicked(index)) =>
             /\ st'.currentSegmentIndex = index
             /\ IF SinkInProgress
                THEN /\ audioSrc' = SegAt(audioSegments, index).stream_url
                     /\ audioState' = "loading"
                     /\ playPromise' # "none"
                ELSE /\ audioState' = audioState
                     /\ audioSrc' = audioSrc
                     /\ playPromise' = "none"
                     /\ ~st'.isPlaying]_vars

-----------------------------------------------------------------------------
(* Claims checked on SpecText *)

\* the lesson text the builders read
LessonText == OrElse(rawText.transcript, rawText.content)

\* ceil(k / 2)
HalfUp(k) == (k + 1) \div 2

BuiltSegments == loads[1].segments

\* C12: the segments are the paragraphs of the text when it has two or more;
\* a text of fewer than two paragraphs and k sentences gives ceil(k/2) segments
C12_ParagraphsElseSentencePairs ==
    loads[1].pc = "done" =>
        LET paragraphs == NonBlank(SplitParagraphs(LessonText))
            sentences == NonBlank(SplitSentences(LessonText))
        IN  IF Len(paragraphs) >= 2
            THEN /\ Len(BuiltSegments) = Len(paragraphs)
                 /\ \A i \in 1..Len(paragraphs) : BuiltSegments[i].text = paragraphs[i]
            ELSE Len(BuiltSegments) = HalfUp(Len(sentences))

\* str occurs in text at position p (1-based)
OccursAt(str, text, p) ==
    /\ p + Len(str) - 1 <= Len(text)
    /\ \A k \in 1..Len(str) : text[p + k - 1] = str[k]

\* the pieces occur in text one after the other, from position p on
RECURSIVE InOrderFrom(_, _, _)
InOrderFrom(pieces, text, p) ==
    IF pieces = <<>>
    THEN TRUE
    ELSE \E q \in p..(Len(text) + 1) :
            /\ OccursAt(Head(pieces), text, q)
            /\ InOrderFrom(Tail(pieces), text, q + Len(Head(pieces)))

\* C13: the builder gives one segment or more, each of speaker 'Narrator',
\* zero duration and empty stream URL, their texts in the order of the text
C13_AtLeastOneSegment ==
    loads[1].pc = "done" =>
        /\ Len(BuiltSegments) >= 1
        /\ \A i \in 1..Len(BuiltSegments) :
              /\ BuiltSegments[i].speaker = "Narrator"
              /\ BuiltSegments[i].duration_seconds = 0
              /\ BuiltSegments[i].stream_url = NoUrl
        /\ InOrderFrom([i \in 1..Len(BuiltSegments) |-> BuiltSegments[i].text],
                       LessonText, 1)

-----------------------------------------------------------------------------
(* Claims checked on SpecCache *)

Entries(cache) == { cache[i] : i \in 1..Len(cache) }

\* the entry the call in slot c stores when it returns in this step
StoredBy(c) ==
    [key |-> loads[c].key, lesson |-> loads'[c].lesson,
     segments |-> loads'[c].segments, timestamp |-> loads[c].now]

\* C14: the cache never holds more than 20 entries; a returning call stores
\* its entry, and when that makes 21 entries exactly 10 are removed, none of
\* them newer than an entry that is kept; otherwise nothing is removed
C14_CacheEviction ==
    [][/\ Len(lessonCache') <= 20
       /\ Cardinality(Entries(lessonCache')) = Len(lessonCache')
       /\ \A c \in 1..MaxLoads :
             (loads[c].pc = "lesson" /\ loads'[c].pc = "done") =>
                LET inserted == { x \in Entries(lessonCache) : x.key # loads[c].key }
                                    \cup {StoredBy(c)}
                    kept == Entries(lessonCache')
                IN  IF Cardinality(inserted) <= 20
                    THEN kept = inserted
                    ELSE /\ kept \subseteq inserted
                         /\ Cardinality(inserted \ kept) = 10
                         /\ \A r \in inserted \ kept, k \in kept :
                               r.timestamp <= k.timestamp]_vars

\* a call has just removed 10 entries, and the entry first in the cache,
\* refreshed after its expiry and so newer than the next, was kept
C14_Witness ==
    /\ client = "cache"
    /\ \E c \in 1..MaxLoads : loads[c].pc = "done" /\ loads[c].evicted = 10
    /\ Len(lessonCache) = 11
    /\ lessonCache[1].timestamp > lessonCache[2].timestamp

-----------------------------------------------------------------------------
(* Claims checked on SpecLoad: the cache and regeneration *)

\* load c was answered from the cache with the bundle load d had stored
ReturnedBundleOf(c, d) ==
    /\ loads[c].pc = "done" /\ loads[c].hit
    /\ Ended(loads[d])
    /\ loads[c].key = loads[d].key
    /\ loads[c].lesson = loads[d].lesson
    /\ loads[c].segments = loads[d].segments

\* C15: no load that begins after a regeneration, within 300 s of the load
\* that stored the bundle before the regeneration, is answered with that bundle
C15_RegenerateInvalidates ==
    \A c, d \in 1..MaxLoads :
        (/\ loads[d].regenerated
         /\ ~loads[c].regenerated
         /\ loads[c].now - loads[d].now < 300 * 1000) => ~ReturnedBundleOf(c, d)

-----------------------------------------------------------------------------
(* Claims checked on SpecLoadLive *)

BundleWaiting(c) ==
    client = "bundle" /\ loads[c].pc \in {"playlist1", "generate", "playlist2"}

\* C16: a loadLessonBundle call that missed the cache and got its lesson
\* returns, having sent at most two playlist queries and one generate
\* request, and its return stores the entry of its key; a call whose lesson
\* fetch fails throws and leaves the cache as it was
C16_MissLeadsToPopulated ==
    /\ [](\A c \in 1..MaxLoads :
            client = "bundle" =>
               /\ loads[c].lessonFetches <= 1
               /\ loads[c].playlistQueries <= 2
               /\ loads[c].generateRequests <= 1
               /\ loads[c].generateRequests = 0 => loads[c].playlistQueries <= 1)
    /\ [][\A c \in 1..MaxLoads :
            Returned(c) =>
               IF loads[c].pc = "lesson"
               THEN loads'[c].pc = "failed" /\ UNCHANGED lessonCache
               ELSE loads'[c].pc = "done" /\ Replaced(c)]_vars
    /\ []<>(\A c \in 1..MaxLoads :
                ~BundleWaiting(c) /\ ~(client = "bundle" /\ loads[c].pc = "lesson"))

\* a miss ended with the transcript after the playlist query, the generate
\* request and the playlist re-query, and its entry is in the cache
C16_Witness ==
    \E c \in 1..MaxLoads :
        /\ client = "bundle"
        /\ Ended(loads[c])
        /\ loads[c].playlistQueries = 2
        /\ loads[c].generateRequests = 1
        /\ loads[c].answer \in {"empty", "failed"}
        /\ CacheHas(lessonCache, loads[c].key)
        /\ CacheGet(lessonCache, loads[c].key).segments = loads[c].segments

-----------------------------------------------------------------------------
(* Claims checked on SpecRace *)

\* the complete manifest of pass p
ManifestOf(p) ==
    [voiceMapping |-> race.pass[p].voiceMapping, artifacts |-> race.pass[p].acc,
     exists |-> TRUE]

Saved(p) == race.pass[p].pc = "saved"

\* C17: the stored manifest is the previous manifest until a pass saves, and
\* from then on the complete manifest of the pass that saved last; every
\* change of it is the one write of a pass that has processed all its turns
C17_RacingGenerate ==
    /\ [](IF race.lastWriter = 0
          THEN manifest = race.previous
          ELSE /\ Saved(race.lastWriter)
               /\ manifest = ManifestOf(race.lastWriter)
               /\ Len(manifest.artifacts) = Len(turns))
    /\ [][manifest' # manifest =>
             \E p \in 1..MaxRacers :
                 /\ ~Saved(p) /\ race'.pass[p].pc = "saved"
                 /\ race.pass[p].i = Len(turns)
                 /\ race'.lastWriter = p
                 /\ \A q \in 1..MaxRacers : q # p => race'.pass[q] = race.pass[q]]_vars

\* two passes that both loaded the previous manifest have saved different
\* manifests; the stored one is that of the pass that saved last
C17_Witness ==
    /\ Saved(1) /\ Saved(2)
    /\ race.pass[1].existing = race.previous
    /\ race.pass[2].existing = race.previous
    /\ ManifestOf(1) # ManifestOf(2)
    /\ race.lastWriter = 1
    /\ manifest = ManifestOf(1)

-----------------------------------------------------------------------------
(* Claims checked on SpecDelete *)

\* a delete request succeeds in this step
Deleted == store'.deletes = store.deletes + 1 /\ store'.result = "success"

\* the artifacts of manifest m whose synthesis produced a stored object
StoredArtifacts(m) == { i \in 1..Len(m.artifacts) : ~m.artifacts[i].error }

ArtifactIds(m, S) == { m.artifacts[i].artifactId : i \in S }

\* C18 as stated: a delete on a manifest listing N artifacts returns N + 1 keys
C18_DeleteReturnsAllListed ==
    [][Deleted /\ manifest.exists => Len(store'.removed) = Len(manifest.artifacts) + 1]_vars

\* C18: a delete on a manifest whose artifacts include S with a stored object
\* removes those objects and the manifest, returns exactly their keys and the
\* manifest key (|S| + 1 keys, none twice), and exists is false afterwards; a
\* delete without a manifest removes nothing, returns no key and succeeds
C18_DeletionCompleteness ==
    [][Deleted =>
         IF manifest.exists
         THEN /\ Range(store'.removed) =
                     ArtifactIds(manifest, StoredArtifacts(manifest)) \cup {ManifestKey}
              /\ Len(store'.removed) = Cardinality(StoredArtifacts(manifest)) + 1
              /\ Range(store'.removed) \subseteq store.objects \cup {ManifestKey}
              /\ store'.objects = store.objects \ Range(store'.removed)
              /\ ~exists'
         ELSE /\ store'.removed = <<>>
              /\ store'.objects = store.objects
              /\ manifest' = manifest]_vars

\* a delete has removed the manifest and two stored objects of a manifest
\* that also listed a failed artifact, and a later delete found no manifest
C18_Witness ==
    /\ store.deletes = 2 /\ store.result = "success" /\ store.removed = <<>>
    /\ ~exists
    /\ genCalls >= 1
    /\ lastCall.filesGenerated >= 2
    /\ lastCall.filesGenerated < lastCall.filesTotal

-----------------------------------------------------------------------------
(* Completion of the lesson, checked on SpecPage *)

\* the sink reports the end of the last segment in this step
LastSegmentEnded ==
    /\ hist'.endedCount = hist.endedCount + 1
    /\ rd.currentSegmentIndex = Len(audioSegments) - 1

\* a completion request is sent in this step
CompletionRequested == completePc = "idle" /\ completePc' = "inflight"

\* C19: when the last segment ends in a 'driving' lesson a completion request
\* is out (sent by this step unless one is still in flight) and no question
\* is shown; in every other context the question is shown and the step sends
\* no completion request, and a completion request is sent only by the
\* learner finishing the question that is shown
C19_CompletionByContext ==
    /\ [][LastSegmentEnded =>
            IF context = "driving"
            THEN /\ completePc' = "inflight"
                 /\ completePc = "idle" =>
                        hist'.completeRequests = Bump(hist.completeRequests)
                 /\ ~st'.showLearningQuestion
            ELSE /\ st'.showLearningQuestion
                 /\ ~CompletionRequested
                 /\ hist'.completeRequests = hist.completeRequests]_vars
    /\ [][context # "driving" /\ (CompletionRequested
                                  \/ hist'.completeRequests # hist.completeRequests)
            => LearningQuestionShown /\ hist'.endedCount = hist.endedCount]_vars

\* a driving lesson played through: the request is out, no question
C19_Witness ==
    /\ context = "driving"
    /\ hist.run = "auto"
    /\ hist.audioCompleteCount = 1
    /\ hist.completeRequests = 1
    /\ completePc = "inflight"
    /\ ~st.showLearningQuestion

\* a lesson of another context played through: the question, no request
C19_QuestionAwaited ==
    /\ context # "driving"
    /\ hist.run = "auto"
    /\ hist.audioCompleteCount = 1
    /\ hist.completeRequests = 0
    /\ LearningQuestionShown

-----------------------------------------------------------------------------
(* Claims checked on SpecUnmount *)

\* C20: once the page is unmounted no step (a play() promise settling, a
\* lesson, playlist or generate response arriving) changes isPlaying,
\* currentSegmentIndex or audioSegments, or calls onLessonStart or
\* onAudioComplete
C20_NothingAfterUnmount ==
    [][~mounted =>
          /\ st'.isPlaying = st.isPlaying
          /\ st'.currentSegmentIndex = st.currentSegmentIndex
          /\ audioSegments' = audioSegments
          /\ hist'.startLessonCalls = hist.startLessonCalls
          /\ hist'.audioCompleteCount = hist.audioCompleteCount]_vars

\* the page was unmounted during its fetch; the fetch went on through a
\* generate request to a playlist, and the page state has none of it
C20_Witness ==
    /\ ~mounted
    /\ loads[1].pc = "done"
    /\ loads[1].generateRequests > 0
    /\ Len(loads[1].segments) > 0
    /\ audioSegments = <<>>
    /\ playPromise = "none"

-----------------------------------------------------------------------------
(* stopPlayback, checked on SpecPlayer *)

\* this step is a call of stopPlayback()
StopCalled ==
    /\ mounted /\ hist.endedCount < MaxNavEnded
    /\ Apply(Manual(stopPlayback(World)))
    /\ UNCHANGED rd

-----------------------------------------------------------------------------
(* Coherence of the playback state, checked on SpecPlayer *)

\* C24: whenever isPlaying is true the sink is playing and its source is the
\* stream URL of audioSegments[currentSegmentIndex]
C24_PlayingCoherent ==
    st.isPlaying =>
        /\ audioState = "playing"
        /\ audioSrc = SegAt(audioSegments, st.currentSegmentIndex).stream_url

\* C26: with a non-empty segment list, 0 <= currentSegmentIndex < length
C26_IndexInRange ==
    Len(audioSegments) > 0 =>
        /\ st.currentSegmentIndex >= 0
        /\ st.currentSegmentIndex < Len(audioSegments)

-----------------------------------------------------------------------------
(* The learning question and the completion request, checked on SpecPage *)

\* C23: whenever the learning-question panel is shown it offers the learner a
\* way to the completion request: the panel renders the interaction (whose
\* answer, once evaluated, brings the "Complete Lesson" button)
C23_CompletionReachable ==
    (mounted /\ LearningQuestionShown) => shouldShowInteraction

\* the completion request is answered in this step, with success
Confirmed ==
    completePc = "inflight" /\ completePc' = "idle" /\ st'.isLessonCompleted

\* C25: a completion request is sent only by a render that has the lesson not
\* completed, and sets isLessonCompleted; an answer that is a failure sets
\* isLessonCompleted back to false; local progress is marked, and the page is
\* left, only by a step in which the server confirms the completion
C25_GuardedCompletion ==
    /\ [][hist'.completeRequests # hist.completeRequests =>
             /\ ~rd.isLessonCompleted
             /\ st'.isLessonCompleted
             /\ completePc' = "inflight"
             /\ hist'.completeRequests = hist.completeRequests + 1]_vars
    /\ [][(completePc = "inflight" /\ completePc' = "idle" /\ mounted') =>
             ~st'.isLessonCompleted]_vars
    /\ [][(hist'.localMarks # hist.localMarks \/ hist'.leaving # hist.leaving
           \/ (mounted /\ ~mounted'))
             => Confirmed]_vars

-----------------------------------------------------------------------------
(* Lesson availability, checked on SpecNav *)

\* C21: a lesson page for day n > 1 is opened only when day n - 1 is in the
\* completedLessons of the program's progress
C21_LessonsInSequence ==
    [][(progress.opened = 0 /\ progress'.opened > 1) =>
          Includes(progress.state.completedLessons, progress'.opened - 1)]_vars

-----------------------------------------------------------------------------
(* Claims checked on SpecProgress *)

\* resetProgramProgress is called in this step
ResetCalled == progress.state.exists /\ ~progress'.state.exists

\* C29: a day in completedLessons stays there in every step but a reset
C29_CompletionMonotonic ==
    [][\A d \in Days :
          (Includes(progress.state.completedLessons, d)
           /\ ~Includes(progress'.state.completedLessons, d)) => ResetCalled]_vars

\* the list is ascending without duplicates
Ascending(seq) == \A i \in 1..(Len(seq) - 1) : seq[i] < seq[i + 1]

\* markLessonCompleted(d) is called in this step
Marked(d) ==
    /\ CanFetch(progress)
    /\ progress' = StartFetch([progress EXCEPT !.state = MarkedEntry(progress.state, d)])

-----------------------------------------------------------------------------
(* Overlapping loads, checked on SpecOverlap *)

\* call c of loadLessonBundle starts in this step
LoadStarted(c) == ~Loading(c) /\ loads'[c] # loads[c]

\* C27: while a call that missed the cache is in flight, a call for the same
\* key sends no lesson fetch, and the overlapping calls for one key send at
\* most one generate request
C27_LoadsDeduplicated ==
    [][\A c, d \in 1..MaxLoads :
          /\ (c # d /\ Loading(d) /\ LoadStarted(c) /\ loads'[c].key = loads[d].key) =>
                loads'[c].lessonFetches = 0
          /\ (c # d /\ Loading(c) /\ Loading(d) /\ loads[c].key = loads[d].key) =>
                loads'[c].generateRequests + loads'[d].generateRequests <= 1]_vars

\* C28: when a call that missed the cache returns, the entry it stored for
\* its key is in the cache
C28_OwnEntryKept ==
    [][\A c \in 1..MaxLoads :
          (loads[c].pc = "generate" /\ loads'[c].pc = "done") =>
              /\ CacheHas(lessonCache', loads[c].key)
              /\ CacheGet(lessonCache', loads[c].key).timestamp = loads[c].now]_vars

====
